---- MODULE Spec2Model ----
(***************************************************************************)
(* receipt-pdf-renamer: the analyse / cache / rename pipeline as driven by  *)
(* its three front-ends (GUI App, TUI Model, HeadlessRunner).               *)
(*                                                                         *)
(* File names and template strings are sequences of one-character strings  *)
(* so that the regular expression, the extension handling, the sanitizer   *)
(* and the template are computed character by character.                    *)
(***************************************************************************)
EXTENDS Integers, Sequences, FiniteSets, TLC

VARIABLES
    mode,        \* which front-end drives the run: "gui", "tui", "headless"
    maxWorkers,  \* cfg.AI.MaxWorkers as handed to the front-end
    dryRun,      \* HeadlessRunner.dryRun
    fs,          \* the directory: file name -> content
    files,       \* App.files / Model.files: sequence of FileItem
    template,    \* Renamer.template (parsed)
    pattern,     \* config Format.ServicePattern / configInfo.ServicePattern
    cacheStore,  \* the Cache value and its directory of entry files
    passes,      \* one record per analysis pass: its semaphore and WaitGroup
    tasks,       \* goroutines of the analysis passes
    disp,        \* TUI dispatcher goroutine of Model.analyzeFiles
    ctxDone,     \* the cancellation context has been cancelled
    selected,    \* Model.selected of the TUI: index -> bool
    ui,          \* front-end control state (TUI flags, headless Run position)
    result,      \* HeadlessResult / RenameResult / renameCompleteMsg counts
    obs          \* what the external collaborators were called with

vars == <<mode, maxWorkers, dryRun, fs, files, template, pattern, cacheStore,
          passes, tasks, disp, ctxDone, selected, ui, result, obs>>

----------------------------------------------------------------------------
(* Bounds of the model *)

\* largest number of files in the directory / in the item collection
MaxFiles == 2

\* largest configured max_workers that is explored
MaxWorkersCfg == 2

\* largest number of AnalyzeFiles invocations of the GUI in one run
MaxPasses == 2

----------------------------------------------------------------------------
(* Strings *)

\* byte order of the characters that occur in the model (ASCII)
AsciiOrder ==
    <<" ", "*", "-", ".", "/", "0", "1", "2", "3", "4", "5", "6", "7", "8",
      "9", ":", "A", "B", "C", "D", "F", "P", "X", "_", "a", "b", "c", "d",
      "f", "p", "t", "x">>

Ord(c) == CHOOSE i \in 1..Len(AsciiOrder) : AsciiOrder[i] = c

Digits == {"0", "1", "2", "3", "4", "5", "6", "7", "8", "9"}

RECURSIVE StrLess(_, _)
\* Go's < on strings: lexicographic in byte order
StrLess(s, t) ==
    IF t = <<>> THEN FALSE
    ELSE IF s = <<>> THEN TRUE
    ELSE IF Head(s) = Head(t) THEN StrLess(Tail(s), Tail(t))
    ELSE Ord(Head(s)) < Ord(Head(t))

HasSuffix(s, suf) ==
    /\ Len(s) >= Len(suf)
    /\ SubSeq(s, Len(s) - Len(suf) + 1, Len(s)) = suf

ToLowerChar(c) ==
    CASE c = "A" -> "a" [] c = "B" -> "b" [] c = "C" -> "c" [] c = "D" -> "d"
      [] c = "F" -> "f" [] c = "P" -> "p" [] c = "X" -> "x" [] OTHER -> c

ToLower(s) == [i \in 1..Len(s) |-> ToLowerChar(s[i])]

\* filepath.Ext: the suffix beginning at the final dot, empty without a dot
Ext(name) ==
    IF \E i \in 1..Len(name) : name[i] = "."
    THEN LET d == CHOOSE i \in 1..Len(name) :
                      /\ name[i] = "."
                      /\ \A j \in (i+1)..Len(name) : name[j] # "."
         IN SubSeq(name, d, Len(name))
    ELSE <<>>

\* strings.TrimSuffix
TrimSuffix(s, suf) ==
    IF HasSuffix(s, suf) THEN SubSeq(s, 1, Len(s) - Len(suf)) ELSE s

SeqRange(s) == {s[i] : i \in 1..Len(s)}

RECURSIVE Split(_)
\* the elements of a path between its separators, empty ones included
Split(p) ==
    IF \E i \in 1..Len(p) : p[i] = "/"
    THEN LET k == CHOOSE i \in 1..Len(p) :
                      p[i] = "/" /\ \A j \in 1..(i-1) : p[j] # "/"
         IN <<SubSeq(p, 1, k - 1)>> \o Split(SubSeq(p, k + 1, Len(p)))
    ELSE <<p>>

RECURSIVE CleanElems(_, _, _)
\* filepath.Clean on the elements: "" and "." are dropped, ".." removes the
\* element before it, stays in front of a relative path and is dropped at
\* the root
CleanElems(elems, out, rooted) ==
    IF elems = <<>> THEN out
    ELSE LET e == Head(elems)
         IN IF e = <<>> \/ e = <<".">>
            THEN CleanElems(Tail(elems), out, rooted)
            ELSE IF e = <<".", ".">>
            THEN IF out # <<>> /\ out[Len(out)] # <<".", ".">>
                 THEN CleanElems(Tail(elems), SubSeq(out, 1, Len(out) - 1), rooted)
                 ELSE IF rooted THEN CleanElems(Tail(elems), out, rooted)
                 ELSE CleanElems(Tail(elems), Append(out, e), rooted)
            ELSE CleanElems(Tail(elems), Append(out, e), rooted)

RECURSIVE JoinElems(_)
JoinElems(elems) ==
    IF elems = <<>> THEN <<>>
    ELSE IF Len(elems) = 1 THEN elems[1]
    ELSE elems[1] \o <<"/">> \o JoinElems(Tail(elems))

\* filepath.Clean
Clean(p) ==
    LET rooted == p # <<>> /\ p[1] = "/"
        body   == JoinElems(CleanElems(Split(p), <<>>, rooted))
    IN IF rooted THEN <<"/">> \o body
       ELSE IF body = <<>> THEN <<".">> ELSE body

\* filepath.Base of a path that does not end in a separator
Base(p) ==
    IF p = <<>> THEN <<".">> ELSE Split(p)[Len(Split(p))]

\* filepath.Dir: the path without its last element, cleaned
Dir(p) ==
    LET elems == Split(p)
    IN IF Len(elems) = 1 THEN <<".">>
       ELSE Clean(SubSeq(p, 1, Len(p) - Len(elems[Len(elems)])))

\* filepath.Join(dir, name)
Join(dir, name) ==
    IF name = <<>> THEN Clean(dir) ELSE Clean(dir \o <<"/">> \o name)

\* sort.Strings / the order of filepath.Glob: ascending byte order
RECURSIVE SortStrings(_)
SortStrings(S) ==
    IF S = {} THEN <<>>
    ELSE LET m == CHOOSE x \in S : \A y \in S \ {x} : StrLess(x, y)
         IN <<m>> \o SortStrings(S \ {m})

----------------------------------------------------------------------------
(* File names of the model *)

PdfExt  == <<".", "p", "d", "f">>
PDFExt  == <<".", "P", "D", "F">>
DateStr == <<"2", "0", "2", "5", "0", "1", "1", "5">>

NameA     == <<"a">> \o PdfExt                            \* a.pdf
NameB     == <<"b">> \o PDFExt                            \* b.PDF
NameDoneA == DateStr \o <<"-", "C", "-", "a">> \o PdfExt  \* 20250115-C-a.pdf
NameDoneB == DateStr \o <<"-", "C", "-", "b">> \o PDFExt  \* 20250115-C-b.PDF

\* names a directory of the model may hold before the run
DirNames == {NameA, NameB, NameDoneA, NameDoneB}

\* content of the files before the run: a.pdf and b.PDF share their bytes
InitContent(name) ==
    IF name \in {NameA, NameB} THEN "bytesA" ELSE "bytesD"

Exists(f, name) == name \in DOMAIN f

----------------------------------------------------------------------------
(* Discovery: the "already renamed" shape *)

\* the regular expression ^\d{8}-.+-.+\.pdf$ ('.' is any character but newline)
alreadyRenamedPattern(s) ==
    /\ Len(s) >= 15
    /\ \A i \in 1..8 : s[i] \in Digits
    /\ s[9] = "-"
    /\ HasSuffix(s, PdfExt)
    /\ LET body == SubSeq(s, 10, Len(s) - 4)
       IN /\ \A i \in 1..Len(body) : body[i] # "\n"
          /\ \E j \in 2..(Len(body) - 1) : body[j] = "-"

isAlreadyRenamed(filename) == alreadyRenamedPattern(filename)

\* strings.HasSuffix(strings.ToLower(path), ".pdf") of AddFiles and ScanFolder
IsPdfPath(path) == HasSuffix(ToLower(path), PdfExt)

\* filepath.Glob(dir/*.pdf) followed by filepath.Glob(dir/*.PDF), then the
\* removal of paths already seen
GlobUnique(f) ==
    SortStrings({n \in DOMAIN f : HasSuffix(n, PdfExt)})
        \o SortStrings({n \in DOMAIN f : HasSuffix(n, PDFExt)})

----------------------------------------------------------------------------
(* Renamer *)

\* strings.NewReplacer of sanitizeFilename: one pass, character by character
ReplaceChar(c) ==
    CASE c \in {"/", "\\", ":", " "} -> <<"-">>
      [] c \in {"*", "?", "\"", "<", ">", "|"} -> <<>>
      [] OTHER -> <<c>>

RECURSIVE Replacer(_)
Replacer(s) ==
    IF s = <<>> THEN <<>> ELSE ReplaceChar(Head(s)) \o Replacer(Tail(s))

RECURSIVE TrimLeft(_)
TrimLeft(s) ==
    IF s # <<>> /\ Head(s) = "-" THEN TrimLeft(Tail(s)) ELSE s

RECURSIVE TrimRight(_)
TrimRight(s) ==
    IF s # <<>> /\ s[Len(s)] = "-" THEN TrimRight(SubSeq(s, 1, Len(s) - 1))
    ELSE s

\* strings.Trim(result, "-")
TrimHyphens(s) == TrimRight(TrimLeft(s))

ContainsDouble(s) == \E i \in 1..(Len(s) - 1) : s[i] = "-" /\ s[i+1] = "-"

RECURSIVE ReplaceAllDouble(_)
\* strings.ReplaceAll(result, "--", "-"): non-overlapping, left to right
ReplaceAllDouble(s) ==
    IF Len(s) < 2 THEN s
    ELSE IF s[1] = "-" /\ s[2] = "-"
         THEN <<"-">> \o ReplaceAllDouble(SubSeq(s, 3, Len(s)))
         ELSE <<s[1]>> \o ReplaceAllDouble(Tail(s))

RECURSIVE CollapseHyphens(_)
\* for strings.Contains(result, "--") { result = ReplaceAll(...) }
CollapseHyphens(s) ==
    IF ContainsDouble(s) THEN CollapseHyphens(ReplaceAllDouble(s)) ELSE s

sanitizeFilename(s) == CollapseHyphens(TrimHyphens(Replacer(s)))

(* A template string is a sequence of tokens: a one-character string is    *)
(* literal text, "{{.F}}" is the action printing field F, and "{{" is an   *)
(* action that is never closed.                                            *)
TokDate   == "{{.Date}}"
TokSvc    == "{{.Service}}"
TokOrig   == "{{.OriginalName}}"
TokFoo    == "{{.Foo}}"
TokBroken == "{{"

\* config.BuildFullTemplate
BuildFullTemplate(servicePattern) ==
    <<TokDate, "-">> \o servicePattern \o <<"-", TokOrig>>

\* the node a token parses to
ParseNode(tok) ==
    CASE tok = TokDate -> [kind |-> "field", arg |-> "Date"]
      [] tok = TokSvc  -> [kind |-> "field", arg |-> "Service"]
      [] tok = TokOrig -> [kind |-> "field", arg |-> "OriginalName"]
      [] tok = TokFoo  -> [kind |-> "field", arg |-> "Foo"]
      [] OTHER         -> [kind |-> "text", arg |-> tok]

\* template.New(..).Parse: fails on an unclosed action, otherwise the tree
TemplateParse(templateStr) ==
    IF \E i \in 1..Len(templateStr) : templateStr[i] = TokBroken
    THEN [err |-> TRUE, tree |-> <<>>]
    ELSE [err |-> FALSE,
          tree |-> [i \in 1..Len(templateStr) |-> ParseNode(templateStr[i])]]

\* config.ValidateTemplate
ValidateTemplate(templateStr) == TemplateParse(templateStr).err

TemplateDataFields == {"Date", "Service", "OriginalName"}

RECURSIVE TemplateExecute(_, _)
\* template.Execute on TemplateData: a field TemplateData lacks is an error
TemplateExecute(tree, data) ==
    IF tree = <<>> THEN [err |-> FALSE, out |-> <<>>]
    ELSE LET n    == Head(tree)
             rest == TemplateExecute(Tail(tree), data)
         IN IF n.kind = "field" /\ n.arg \notin TemplateDataFields
            THEN [err |-> TRUE, out |-> <<>>]
            ELSE IF rest.err THEN rest
            ELSE [err |-> FALSE,
                  out |-> (IF n.kind = "field" THEN data[n.arg]
                           ELSE <<n.arg>>) \o rest.out]

\* a GenerateName that hands the service to the template as extracted
GenerateName_RawService(tmpl, originalPath, info) ==
    LET originalName   == Base(originalPath)
        ext            == Ext(originalName)
        nameWithoutExt == TrimSuffix(originalName, ext)
        data == [Date |-> info.Date, Service |-> info.Service,
                 OriginalName |-> nameWithoutExt]
        ex   == TemplateExecute(tmpl, data)
    IN IF ex.err THEN [err |-> TRUE, name |-> <<>>]
       ELSE [err |-> FALSE, name |-> ex.out \o ext]

\* Renamer.GenerateName with the template tmpl in force
GenerateName(tmpl, originalPath, info) ==
    LET originalName   == Base(originalPath)
        ext            == Ext(originalName)
        nameWithoutExt == TrimSuffix(originalName, ext)
        serviceName    == sanitizeFilename(info.Service)
        data == [Date |-> info.Date, Service |-> serviceName,
                 OriginalName |-> nameWithoutExt]
        ex   == TemplateExecute(tmpl, data)
    IN IF ex.err THEN [err |-> TRUE, name |-> <<>>]
       ELSE [err |-> FALSE, name |-> ex.out \o ext]

RECURSIVE Ancestors(_)
\* the directories above a cleaned path, up to "." or the root
Ancestors(p) ==
    IF Dir(p) = p \/ Dir(p) = <<".">> THEN {Dir(p)}
    ELSE {Dir(p)} \cup Ancestors(Dir(p))

\* d is a directory of the file system f: the working directory, a chain of
\* ".." above it, or a directory on the way to one of the files
DirExists(f, d) ==
    \/ \A e \in SeqRange(Split(d)) : e \in {<<".">>, <<".", ".">>}
    \/ \E n \in DOMAIN f : d \in Ancestors(n)

\* a check that never sees the destination
DestinationExists_Never(f, newPath) == FALSE

\* os.Stat(newPath) succeeds: a file or a directory is there
DestinationExists(f, newPath) == Exists(f, newPath) \/ DirExists(f, newPath)

Rename_Copy(f, oldPath, newName, ioErr) ==
    LET newPath == Join(Dir(oldPath), newName)
    IN IF DestinationExists(f, newPath)
       THEN [err |-> "destination file already exists", fs |-> f]
       ELSE IF ioErr \/ ~Exists(f, oldPath) \/ ~DirExists(f, Dir(newPath))
       THEN [err |-> "failed to rename file", fs |-> f]
       ELSE [err |-> "",
             fs |-> [n \in DOMAIN f \cup {newPath} |->
                        IF n = newPath THEN f[oldPath] ELSE f[n]]]

\* Renamer.Rename in the file system f; ioErr: os.Rename fails for a reason
\* outside the model. os.Rename also fails when the source is missing or the
\* directory of the new path does not exist
Rename(f, oldPath, newName, ioErr) ==
    LET dir     == Dir(oldPath)
        newPath == Join(dir, newName)
    IN IF DestinationExists(f, newPath)
       THEN [err |-> "destination file already exists", fs |-> f]
       ELSE IF ioErr \/ ~Exists(f, oldPath) \/ ~DirExists(f, Dir(newPath))
       THEN [err |-> "failed to rename file", fs |-> f]
       ELSE [err |-> "",
             fs |-> [n \in (DOMAIN f \ {oldPath}) \cup {newPath} |->
                        IF n = newPath THEN f[oldPath] ELSE f[n]]]

----------------------------------------------------------------------------
(* Cache and analyzer *)

hashFile_Fixed(f, path) ==
    IF Exists(f, path) THEN [err |-> FALSE, hash |-> <<"sha256">>]
    ELSE [err |-> TRUE, hash |-> <<>>]

hashFile_ByPath(f, path) ==
    IF Exists(f, path) THEN [err |-> FALSE, hash |-> <<"sha256", path>>]
    ELSE [err |-> TRUE, hash |-> <<>>]

\* Cache.hashFile: SHA-256 of the bytes at path; fails when unreadable
hashFile(f, path) ==
    IF Exists(f, path) THEN [err |-> FALSE, hash |-> <<"sha256", f[path]>>]
    ELSE [err |-> TRUE, hash |-> <<>>]

\* cache.New: the Cache value and its directory. entries maps a hash to the
\* content of the file <hash>.json; writable: os.WriteFile into the
\* directory succeeds
NewCache(enabled, ttl, writable, entries) ==
    [enabled |-> enabled, ttl |-> ttl, writable |-> writable,
     entries |-> entries]

\* the file Cache.Set writes: a CacheEntry as JSON. Age is the number of days
\* from AnalyzedAt to now
EntryFile(hash, info) ==
    [Valid |-> TRUE, Hash |-> hash, Age |-> 0, Result |-> info]

\* removal of one entry file
RemoveEntry(entries, hash) == [k \in DOMAIN entries \ {hash} |-> entries[k]]

Expired_Never(c, entry) == FALSE

\* time.Now().After(entry.AnalyzedAt.AddDate(0, 0, c.ttl)) under a positive ttl
Expired(c, entry) == c.ttl > 0 /\ entry.Age > c.ttl

CacheGet_TakesDamaged(c, f, path) ==
    LET h == hashFile(f, path)
        miss == [ok |-> FALSE, info |-> <<>>, cache |-> c]
    IN IF ~c.enabled THEN miss
       ELSE IF h.err THEN miss
       ELSE IF h.hash \notin DOMAIN c.entries THEN miss
       ELSE IF c.entries[h.hash].Valid /\ Expired(c, c.entries[h.hash])
       THEN [miss EXCEPT !.cache.entries = RemoveEntry(c.entries, h.hash)]
       ELSE [ok |-> TRUE, info |-> <<c.entries[h.hash].Result>>, cache |-> c]

\* a Get that reads the directory of a cache that is switched off
CacheGet_IgnoresEnabled(c, f, path) ==
    LET h == hashFile(f, path)
        miss == [ok |-> FALSE, info |-> <<>>, cache |-> c]
    IN IF h.err THEN miss
       ELSE IF h.hash \notin DOMAIN c.entries THEN miss
       ELSE IF ~c.entries[h.hash].Valid THEN miss
       ELSE IF Expired(c, c.entries[h.hash])
       THEN [miss EXCEPT !.cache.entries = RemoveEntry(c.entries, h.hash)]
       ELSE [ok |-> TRUE, info |-> <<c.entries[h.hash].Result>>, cache |-> c]

\* Cache.Get: the stored result of the content at path, if any, and the cache
\* directory after the call
CacheGet(c, f, path) ==
    LET h == hashFile(f, path)
        miss == [ok |-> FALSE, info |-> <<>>, cache |-> c]
    IN IF ~c.enabled THEN miss
       ELSE IF h.err THEN miss
       ELSE IF h.hash \notin DOMAIN c.entries THEN miss
       ELSE IF ~c.entries[h.hash].Valid THEN miss
       ELSE IF Expired(c, c.entries[h.hash])
       THEN [miss EXCEPT !.cache.entries = RemoveEntry(c.entries, h.hash)]
       ELSE [ok |-> TRUE, info |-> <<c.entries[h.hash].Result>>, cache |-> c]

\* Cache.Set: writes or overwrites the entry of the content at path
CacheSet(c, f, path, info) ==
    LET h == hashFile(f, path)
    IN IF ~c.enabled THEN [err |-> FALSE, cache |-> c]
       ELSE IF h.err \/ ~c.writable THEN [err |-> TRUE, cache |-> c]
       ELSE [err |-> FALSE,
             cache |-> [c EXCEPT !.entries =
                          [k \in DOMAIN c.entries \cup {h.hash} |->
                              IF k = h.hash THEN EntryFile(h.hash, info)
                              ELSE c.entries[k]]]]

\* the analyzer's answer in the model: date 20250115, service "C/"
InfoC == [Date |-> DateStr, Service |-> <<"C", "/">>]

\* what a call of Provider.AnalyzeReceipt may return: an error, or a result;
\* a file that cannot be read is always an error
AnalyzerOutcomes(f, path) ==
    IF Exists(f, path)
    THEN {[err |-> TRUE, info |-> InfoC], [err |-> FALSE, info |-> InfoC]}
    ELSE {[err |-> TRUE, info |-> InfoC]}

----------------------------------------------------------------------------
(* Initial state *)

DefaultTemplate == <<TokDate, "-", TokSvc, "-", TokOrig>>

NoResult == [Renamed |-> 0, Failed |-> 0, Skipped |-> 0, Total |-> 0]

IdleDisp == [pc |-> "idle", i |-> 1, filled |-> 0]

InitUi == [pc |-> "start", analyzing |-> FALSE, renaming |-> FALSE,
           done |-> FALSE, quit |-> FALSE, editingTemplate |-> FALSE,
           templateError |-> FALSE]

\* configurations and directories a run may start from
Init ==
    /\ mode \in {"gui", "tui", "headless"}
    /\ maxWorkers \in 0..MaxWorkersCfg
    /\ dryRun \in (IF mode = "headless" THEN BOOLEAN ELSE {FALSE})
    /\ \E D \in SUBSET DirNames :
          /\ Cardinality(D) <= MaxFiles
          /\ fs = [n \in D |-> InitContent(n)]
    /\ files = <<>>
    /\ template = TemplateParse(DefaultTemplate).tree
    /\ pattern = <<TokSvc>>
    /\ cacheStore = NewCache(TRUE, 0, TRUE, <<>>)
    /\ passes = <<>>
    /\ tasks = {}
    /\ disp = IdleDisp
    /\ ctxDone = FALSE
    /\ selected = <<>>
    /\ ui = InitUi
    /\ result = NoResult
    /\ obs = [analyzed |-> {}, cacheGet |-> {}, renamed |-> {}]

\* format.template of a configuration file that names files by their
\* original name
ConfiguredTemplate == <<TokOrig>>

\* a run whose configuration file sets format.template and one worker
InitCfg ==
    /\ mode \in {"gui", "tui", "headless"}
    /\ maxWorkers = 1
    /\ dryRun \in (IF mode = "headless" THEN BOOLEAN ELSE {FALSE})
    /\ \E D \in SUBSET {NameA, NameB} : fs = [n \in D |-> InitContent(n)]
    /\ files = <<>>
    /\ template = TemplateParse(ConfiguredTemplate).tree
    /\ pattern = <<>>
    /\ cacheStore = NewCache(TRUE, 0, TRUE, <<>>)
    /\ passes = <<>>
    /\ tasks = {}
    /\ disp = IdleDisp
    /\ ctxDone = FALSE
    /\ selected = <<>>
    /\ ui = InitUi
    /\ result = NoResult
    /\ obs = [analyzed |-> {}, cacheGet |-> {}, renamed |-> {}]

----------------------------------------------------------------------------
(* Semaphore and WaitGroup of a pass *)

\* make(chan struct{}, n) and a WaitGroup with n goroutines added
NewPass(cap, n) == [cap |-> cap, sem |-> 0, wg |-> n, returned |-> FALSE]

\* a send that never waits for a free slot
CanAcquire_Unbounded(p) == TRUE

\* sem <- struct{}{} can proceed: the channel has a free slot
CanAcquire(p) == passes[p].sem < passes[p].cap

Acquire(ps, p) == [ps EXCEPT ![p].sem = @ + 1]

\* <-sem
Release(ps, p) == [ps EXCEPT ![p].sem = @ - 1]

\* deferred <-sem followed by the deferred wg.Done()
ReleaseAndDone(ps, p) == [ps EXCEPT ![p].sem = @ - 1, ![p].wg = @ - 1]

\* a wait that returns while goroutines are still running
WgWait_NoWait(p) == TRUE

\* wg.Wait() can return: every goroutine of the pass has called wg.Done()
WgWait(p) == passes[p].wg = 0

\* tasks of pass p that hold a semaphore slot
Gated(p) == {t \in tasks : t.pass = p /\ t.pc \notin {"start", "acquire"}}

----------------------------------------------------------------------------
(* Headless mode: HeadlessRunner.Run *)

\* a classification loop that keeps every listed file for processing
Run_ToProcess_All(unique) == SortStrings(SeqRange(unique))

\* the files Run keeps for processing: those not already renamed
Run_ToProcess(unique) ==
    SortStrings({n \in SeqRange(unique) : ~isAlreadyRenamed(n)})

\* Run up to the start of the goroutines: listing, classification, sem, wg
Run_Start ==
    /\ mode = "headless"
    /\ ui.pc = "start"
    /\ LET unique    == GlobUnique(fs)
           toProcess == Run_ToProcess(unique)
           skipped   == SortStrings({n \in SeqRange(unique) : isAlreadyRenamed(n)})
       IN IF Len(unique) = 0
          THEN /\ ui' = [ui EXCEPT !.pc = "returned"]
               /\ UNCHANGED <<result, passes, tasks>>
          ELSE IF Len(toProcess) = 0
          THEN /\ ui' = [ui EXCEPT !.pc = "returned"]
               /\ result' = [result EXCEPT !.Skipped = Len(skipped)]
               /\ UNCHANGED <<passes, tasks>>
          ELSE /\ ui' = [ui EXCEPT !.pc = "running"]
               /\ result' = [result EXCEPT !.Skipped = Len(skipped)]
               /\ passes' = <<NewPass(maxWorkers, Len(toProcess))>>
               /\ tasks' = {[pass |-> 1, idx |-> i, pc |-> "start",
                             path |-> toProcess[i]] : i \in 1..Len(toProcess)}
    /\ UNCHANGED <<mode, maxWorkers, dryRun, fs, files, template, pattern,
                   cacheStore, disp, ctxDone, selected, obs>>

\* the goroutine's select on ctx.Done() before it queues for the semaphore
Run_CheckCtx(t) ==
    /\ mode = "headless"
    /\ t \in tasks /\ t.pc = "start"
    /\ IF ctxDone
       THEN /\ tasks' = tasks \ {t}
            /\ passes' = [passes EXCEPT ![t.pass].wg = @ - 1]
       ELSE /\ tasks' = (tasks \ {t}) \cup {[t EXCEPT !.pc = "acquire"]}
            /\ UNCHANGED passes
    /\ UNCHANGED <<mode, maxWorkers, dryRun, fs, files, template, pattern,
                   cacheStore, disp, ctxDone, selected, ui, result, obs>>

\* sem <- struct{}{}
Run_Acquire(t) ==
    /\ mode = "headless"
    /\ t \in tasks /\ t.pc = "acquire"
    /\ CanAcquire(t.pass)
    /\ passes' = Acquire(passes, t.pass)
    /\ tasks' = (tasks \ {t}) \cup {[t EXCEPT !.pc = "get"]}
    /\ UNCHANGED <<mode, maxWorkers, dryRun, fs, files, template, pattern,
                   cacheStore, disp, ctxDone, selected, ui, result, obs>>

\* a Run that goes on to Rename in a dry run as well
Run_Finish_DryRenames(t, info, store, ioErr, o) ==
    LET g == GenerateName(template, t.path, info)
        r == Rename(fs, t.path, g.name, ioErr)
    IN /\ cacheStore' = store
       /\ tasks' = tasks \ {t}
       /\ passes' = ReleaseAndDone(passes, t.pass)
       /\ IF g.err
          THEN /\ result' = [result EXCEPT !.Failed = @ + 1]
               /\ UNCHANGED fs
          ELSE /\ fs' = r.fs
               /\ result' = IF r.err # ""
                            THEN [result EXCEPT !.Failed = @ + 1]
                            ELSE [result EXCEPT !.Renamed = @ + 1]
       /\ obs' = [o EXCEPT !.renamed =
                     IF g.err THEN @ ELSE @ \cup {t.path}]

\* GenerateName and, unless dry-run, Rename, with the counting of the outcome;
\* the goroutine then releases its slot and signals the WaitGroup
Run_Finish(t, info, store, ioErr, o) ==
    LET g == GenerateName(template, t.path, info)
        r == Rename(fs, t.path, g.name, ioErr)
    IN /\ cacheStore' = store
       /\ tasks' = tasks \ {t}
       /\ passes' = ReleaseAndDone(passes, t.pass)
       /\ IF g.err
          THEN /\ result' = [result EXCEPT !.Failed = @ + 1]
               /\ UNCHANGED fs
          ELSE IF dryRun
          THEN /\ result' = [result EXCEPT !.Renamed = @ + 1]
               /\ UNCHANGED fs
          ELSE /\ fs' = r.fs
               /\ result' = IF r.err # ""
                            THEN [result EXCEPT !.Failed = @ + 1]
                            ELSE [result EXCEPT !.Renamed = @ + 1]
       /\ obs' = [o EXCEPT !.renamed =
                     IF g.err \/ dryRun THEN @ ELSE @ \cup {t.path}]

\* r.cache.Get: a hit goes on to naming and renaming, a miss calls the analyzer
Run_CacheGet(t) ==
    /\ mode = "headless"
    /\ t \in tasks /\ t.pc = "get"
    /\ LET c == CacheGet(cacheStore, fs, t.path)
       IN IF c.ok
          THEN \E ioErr \in BOOLEAN :
                  Run_Finish(t, c.info[1], c.cache, ioErr,
                             [obs EXCEPT !.cacheGet = @ \cup {t.path}])
          ELSE /\ tasks' = (tasks \ {t}) \cup {[t EXCEPT !.pc = "call"]}
               /\ cacheStore' = c.cache
               /\ obs' = [obs EXCEPT !.cacheGet = @ \cup {t.path},
                                    !.analyzed = @ \cup {t.path}]
               /\ UNCHANGED <<fs, passes, result>>
    /\ UNCHANGED <<mode, maxWorkers, dryRun, files, template, pattern,
                   disp, ctxDone, selected, ui>>

\* r.provider.AnalyzeReceipt returns
Run_AnalyzeReturn(t) ==
    /\ mode = "headless"
    /\ t \in tasks /\ t.pc = "call"
    /\ \E o \in AnalyzerOutcomes(fs, t.path) :
          IF o.err
          THEN /\ result' = [result EXCEPT !.Failed = @ + 1]
               /\ tasks' = tasks \ {t}
               /\ passes' = ReleaseAndDone(passes, t.pass)
               /\ UNCHANGED <<fs, cacheStore, obs>>
          ELSE \E ioErr \in BOOLEAN :
                  Run_Finish(t, o.info,
                             CacheSet(cacheStore, fs, t.path, o.info).cache,
                             ioErr, obs)
    /\ UNCHANGED <<mode, maxWorkers, dryRun, files, template, pattern,
                   disp, ctxDone, selected, ui>>

\* wg.Wait() returns and Run prints its summary
Run_Return ==
    /\ mode = "headless"
    /\ ui.pc = "running"
    /\ WgWait(1)
    /\ ui' = [ui EXCEPT !.pc = "returned"]
    /\ passes' = [passes EXCEPT ![1].returned = TRUE]
    /\ UNCHANGED <<mode, maxWorkers, dryRun, fs, files, template, pattern,
                   cacheStore, tasks, disp, ctxDone, selected, result, obs>>

\* SIGINT / SIGTERM: the goroutine of runHeadless cancels the context
Signal_Cancel ==
    /\ mode = "headless"
    /\ ui.pc \in {"start", "running"}
    /\ ~ctxDone
    /\ ctxDone' = TRUE
    /\ UNCHANGED <<mode, maxWorkers, dryRun, fs, files, template, pattern,
                   cacheStore, passes, tasks, disp, selected, ui, result, obs>>

HeadlessNext ==
    \/ Run_Start
    \/ \E t \in tasks : Run_CheckCtx(t)
    \/ \E t \in tasks : Run_Acquire(t)
    \/ \E t \in tasks : Run_CacheGet(t)
    \/ \E t \in tasks : Run_AnalyzeReturn(t)
    \/ Run_Return
    \/ Signal_Cancel

----------------------------------------------------------------------------
(* TUI mode: Model *)

StatusPending   == "pending"
StatusAnalyzing == "analyzing"
StatusReady     == "ready"
StatusCached    == "cached"
StatusRenamed   == "renamed"
StatusError     == "error"
StatusSkipped   == "skipped"

\* the FileItem that ScanDirectory creates for a listed path
Model_NewItem(path) ==
    [OriginalPath |-> path, OriginalName |-> path, NewName |-> <<>>,
     Info |-> <<>>,
     Status |-> IF isAlreadyRenamed(path) THEN StatusSkipped ELSE StatusPending,
     Error |-> "", AlreadyRenamed |-> isAlreadyRenamed(path)]

\* Model.ScanDirectory: items of the listing, the unprocessed ones first, each
\* group by name; an item is selected unless it is already renamed
ScanDirectory(f) ==
    LET unique == SeqRange(GlobUnique(f))
        order  == SortStrings({n \in unique : ~isAlreadyRenamed(n)})
                      \o SortStrings({n \in unique : isAlreadyRenamed(n)})
    IN [i \in 1..Len(order) |-> Model_NewItem(order[i])]

\* scanCmd
Model_Scan ==
    /\ mode = "tui"
    /\ ui.pc = "start"
    /\ files' = ScanDirectory(fs)
    /\ selected' = [i \in 1..Len(files') |-> ~files'[i].AlreadyRenamed]
    /\ ui' = [ui EXCEPT !.pc = "scanned"]
    /\ UNCHANGED <<mode, maxWorkers, dryRun, fs, template, pattern, cacheStore,
                   passes, tasks, disp, ctxDone, result, obs>>

\* Update(scanCompleteMsg): analyzing is set and analyzeFiles starts its
\* dispatcher goroutine on a fresh semaphore
Model_ScanComplete ==
    /\ mode = "tui"
    /\ ui.pc = "scanned"
    /\ ui' = [ui EXCEPT !.pc = "running", !.analyzing = TRUE]
    /\ passes' = <<NewPass(maxWorkers, 0)>>
    /\ disp' = [pc |-> "loop", i |-> 1, filled |-> 0]
    /\ UNCHANGED <<mode, maxWorkers, dryRun, fs, files, template, pattern,
                   cacheStore, tasks, ctxDone, selected, result, obs>>

\* head of the dispatcher's loop: the ctx check and the AlreadyRenamed skip
Model_DispatchLoop ==
    /\ mode = "tui"
    /\ disp.pc = "loop"
    /\ IF disp.i > Len(files)
       THEN /\ disp' = [disp EXCEPT !.pc = "fill"]
            /\ UNCHANGED passes
       ELSE IF ctxDone
       THEN \* close(done): analyzeFiles returns at once
            /\ disp' = [disp EXCEPT !.pc = "closed"]
            /\ passes' = [passes EXCEPT ![1].returned = TRUE]
       ELSE IF files[disp.i].AlreadyRenamed
       THEN /\ disp' = [disp EXCEPT !.i = @ + 1]
            /\ UNCHANGED passes
       ELSE /\ disp' = [disp EXCEPT !.pc = "acquire"]
            /\ UNCHANGED passes
    /\ UNCHANGED <<mode, maxWorkers, dryRun, fs, files, template, pattern,
                   cacheStore, tasks, ctxDone, selected, ui, result, obs>>

\* sem <- struct{}{} of the dispatcher, then go func(index) for the item
Model_DispatchAcquire ==
    /\ mode = "tui"
    /\ disp.pc = "acquire"
    /\ CanAcquire(1)
    /\ passes' = Acquire(passes, 1)
    /\ tasks' = tasks \cup {[pass |-> 1, idx |-> disp.i, pc |-> "get"]}
    /\ disp' = [disp EXCEPT !.pc = "loop", !.i = @ + 1]
    /\ UNCHANGED <<mode, maxWorkers, dryRun, fs, files, template, pattern,
                   cacheStore, ctxDone, selected, ui, result, obs>>

\* after the loop the dispatcher takes every slot of the semaphore, which it
\* can only do once no worker holds one, and then closes done
Model_DispatchFill ==
    /\ mode = "tui"
    /\ disp.pc = "fill"
    /\ IF disp.filled < maxWorkers
       THEN /\ CanAcquire(1)
            /\ passes' = Acquire(passes, 1)
            /\ disp' = [disp EXCEPT !.filled = @ + 1]
       ELSE /\ disp' = [disp EXCEPT !.pc = "closed"]
            /\ passes' = [passes EXCEPT ![1].returned = TRUE]
    /\ UNCHANGED <<mode, maxWorkers, dryRun, fs, files, template, pattern,
                   cacheStore, tasks, ctxDone, selected, ui, result, obs>>

\* the item a worker writes back after naming with info: its copy of the item
\* with the name, or with the naming error
Model_Named(item, info, okStatus) ==
    LET g == GenerateName(template, item.OriginalPath, info)
    IN IF g.err
       THEN [item EXCEPT !.Status = StatusError, !.Error = "template"]
       ELSE [item EXCEPT !.Info = <<info>>, !.NewName = g.name,
                         !.Status = okStatus]

\* worker: copy of the item, cache.Get; a hit is named and written back, a
\* miss marks the shared item Analyzing and calls the analyzer
Model_WorkerGet(t) ==
    /\ mode = "tui"
    /\ t \in tasks /\ t.pc = "get"
    /\ LET item == files[t.idx]
           c    == CacheGet(cacheStore, fs, item.OriginalPath)
       IN IF c.ok
          THEN /\ files' = [files EXCEPT ![t.idx] =
                               Model_Named(item, c.info[1], StatusCached)]
               /\ tasks' = tasks \ {t}
               /\ passes' = Release(passes, t.pass)
               /\ obs' = [obs EXCEPT !.cacheGet = @ \cup {item.OriginalPath}]
          ELSE /\ files' = [files EXCEPT ![t.idx].Status = StatusAnalyzing]
               /\ tasks' = (tasks \ {t}) \cup
                              {[pass |-> t.pass, idx |-> t.idx, pc |-> "call",
                                item |-> item]}
               /\ obs' = [obs EXCEPT !.cacheGet = @ \cup {item.OriginalPath},
                                    !.analyzed = @ \cup {item.OriginalPath}]
               /\ UNCHANGED passes
    /\ cacheStore' = CacheGet(cacheStore, fs, files[t.idx].OriginalPath).cache
    /\ UNCHANGED <<mode, maxWorkers, dryRun, fs, template, pattern,
                   disp, ctxDone, selected, ui, result>>

\* worker: AnalyzeReceipt returns; the copy is completed and written back
Model_WorkerReturn(t) ==
    /\ mode = "tui"
    /\ t \in tasks /\ t.pc = "call"
    /\ \E o \in AnalyzerOutcomes(fs, t.item.OriginalPath) :
          IF o.err
          THEN /\ files' = [files EXCEPT ![t.idx] =
                               [t.item EXCEPT !.Status = StatusError,
                                              !.Error = "analyzer"]]
               /\ UNCHANGED cacheStore
          ELSE /\ cacheStore' = CacheSet(cacheStore, fs, t.item.OriginalPath,
                                         o.info).cache
               /\ files' = [files EXCEPT ![t.idx] =
                               Model_Named(t.item, o.info, StatusReady)]
    /\ tasks' = tasks \ {t}
    /\ passes' = Release(passes, t.pass)
    /\ UNCHANGED <<mode, maxWorkers, dryRun, fs, template, pattern, disp,
                   ctxDone, selected, ui, result, obs>>

\* Update(analyzeCompleteMsg), sent when analyzeFiles has returned
Model_AnalyzeComplete ==
    /\ mode = "tui"
    /\ disp.pc = "closed"
    /\ ui.analyzing
    /\ ui' = [ui EXCEPT !.analyzing = FALSE]
    /\ UNCHANGED <<mode, maxWorkers, dryRun, fs, files, template, pattern,
                   cacheStore, passes, tasks, disp, ctxDone, selected, result,
                   obs>>

\* keys reach handleKeyMsg while the program runs
Model_KeysLive == mode = "tui" /\ ~ui.quit

\* keys "q", "ctrl+c", "esc" (and any key once done): cancel and quit
Model_Quit ==
    /\ Model_KeysLive
    /\ ui.done \/ ~ui.editingTemplate
    /\ ctxDone' = (IF ui.done THEN ctxDone ELSE TRUE)
    /\ ui' = [ui EXCEPT !.quit = TRUE]
    /\ UNCHANGED <<mode, maxWorkers, dryRun, fs, files, template, pattern,
                   cacheStore, passes, tasks, disp, selected, result, obs>>

\* Model.ToggleSelection(index), key " " at the cursor
ToggleSelection(sel, index) ==
    IF index >= 1 /\ index <= Len(files) /\ ~files[index].AlreadyRenamed
    THEN [sel EXCEPT ![index] = ~sel[index]]
    ELSE sel

\* Model.SelectAll, key "a"
Model_SelectAll(sel) ==
    [i \in DOMAIN sel |-> IF ~files[i].AlreadyRenamed THEN TRUE ELSE sel[i]]

\* Model.DeselectAll, key "n"
Model_DeselectAll(sel) == [i \in DOMAIN sel |-> FALSE]

Model_SelectionKey ==
    /\ Model_KeysLive
    /\ ~ui.done /\ ~ui.editingTemplate
    /\ \/ \E index \in 1..Len(files) : selected' = ToggleSelection(selected, index)
       \/ selected' = Model_SelectAll(selected)
       \/ selected' = Model_DeselectAll(selected)
    /\ selected' # selected
    /\ UNCHANGED <<mode, maxWorkers, dryRun, fs, files, template, pattern,
                   cacheStore, passes, tasks, disp, ctxDone, ui, result, obs>>

\* Model.SelectedCount
SelectedCount ==
    Cardinality({i \in 1..Len(files) :
                    selected[i] /\ files[i].Status \in {StatusReady, StatusCached}})

\* key "t": template edit mode
Model_EditKey ==
    /\ Model_KeysLive
    /\ ~ui.done /\ ~ui.editingTemplate
    /\ ~ui.analyzing /\ ~ui.renaming
    /\ ui' = [ui EXCEPT !.editingTemplate = TRUE, !.templateError = FALSE]
    /\ UNCHANGED <<mode, maxWorkers, dryRun, fs, files, template, pattern,
                   cacheStore, passes, tasks, disp, ctxDone, selected, result,
                   obs>>

\* patterns a user may submit: the service field, a field TemplateData
\* lacks, an unclosed action
PatternChoices == {<<TokSvc>>, <<TokFoo>>, <<TokBroken>>}

\* Renamer.UpdateTemplate: the tree replaces the template only if it parses
UpdateTemplate(tmpl, templateStr) ==
    LET p == TemplateParse(templateStr)
    IN IF p.err THEN [err |-> TRUE, template |-> tmpl]
       ELSE [err |-> FALSE, template |-> p.tree]

\* Model.regenerateNewNames under the template tmpl
regenerateNewNames(fl, tmpl) ==
    [i \in DOMAIN fl |->
        IF fl[i].Info # <<>> /\ fl[i].Status \in {StatusReady, StatusCached}
        THEN LET g == GenerateName(tmpl, fl[i].OriginalPath, fl[i].Info[1])
             IN IF g.err
                THEN [fl[i] EXCEPT !.Status = StatusError, !.Error = "template"]
                ELSE [fl[i] EXCEPT !.NewName = g.name]
        ELSE fl[i]]

\* handleTemplateEditKey, key "enter" with the input newPattern
Model_EditEnter(newPattern) ==
    /\ Model_KeysLive
    /\ ~ui.done /\ ui.editingTemplate
    /\ IF newPattern # pattern
       THEN LET u == UpdateTemplate(template, BuildFullTemplate(newPattern))
            IN IF u.err
               THEN /\ ui' = [ui EXCEPT !.templateError = TRUE]
                    /\ UNCHANGED <<template, pattern, files>>
               ELSE /\ ui' = [ui EXCEPT !.editingTemplate = FALSE,
                                       !.templateError = FALSE]
                    /\ template' = u.template
                    /\ pattern' = newPattern
                    /\ files' = regenerateNewNames(files, u.template)
       ELSE /\ ui' = [ui EXCEPT !.editingTemplate = FALSE,
                               !.templateError = FALSE]
            /\ UNCHANGED <<template, pattern, files>>
    /\ UNCHANGED <<mode, maxWorkers, dryRun, fs, cacheStore, passes, tasks,
                   disp, ctxDone, selected, result, obs>>

\* key "enter": the rename batch is started
Model_EnterKey ==
    /\ Model_KeysLive
    /\ ~ui.done /\ ~ui.editingTemplate
    /\ ~ui.analyzing /\ ~ui.renaming /\ SelectedCount > 0
    /\ ui' = [ui EXCEPT !.renaming = TRUE]
    /\ UNCHANGED <<mode, maxWorkers, dryRun, fs, files, template, pattern,
                   cacheStore, passes, tasks, disp, ctxDone, selected, result,
                   obs>>

RECURSIVE Model_RenameFrom(_, _, _, _, _)
\* the loop of renameCmd from item i on: st carries files, fs and the counts;
\* ioErrs: the items whose os.Rename fails in the file system
Model_RenameFrom(i, fl, st, sel, ioErrs) ==
    IF i > Len(fl) THEN st
    ELSE IF ~sel[i] \/ fl[i].Status \notin {StatusReady, StatusCached}
    THEN Model_RenameFrom(i + 1, fl, st, sel, ioErrs)
    ELSE LET r == Rename(st.fs, fl[i].OriginalPath, fl[i].NewName, i \in ioErrs)
         IN Model_RenameFrom(i + 1, fl,
               IF r.err # ""
               THEN [st EXCEPT !.files[i].Status = StatusError,
                               !.files[i].Error = r.err,
                               !.failed = @ + 1,
                               !.called = @ \cup {fl[i].OriginalPath}]
               ELSE [st EXCEPT !.files[i].Status = StatusRenamed,
                               !.fs = r.fs,
                               !.renamed = @ + 1,
                               !.called = @ \cup {fl[i].OriginalPath}],
               sel, ioErrs)

\* renameCmd and Update(renameCompleteMsg)
Model_RenameCmd ==
    /\ mode = "tui"
    /\ ui.renaming
    /\ \E ioErrs \in SUBSET (1..Len(files)) :
          LET st == Model_RenameFrom(1, files,
                       [files |-> files, fs |-> fs, renamed |-> 0,
                        failed |-> 0, called |-> {}], selected, ioErrs)
          IN /\ files' = st.files
             /\ fs' = st.fs
             /\ result' = [result EXCEPT !.Renamed = st.renamed,
                                         !.Failed = st.failed]
             /\ obs' = [obs EXCEPT !.renamed = @ \cup st.called]
    /\ ui' = [ui EXCEPT !.renaming = FALSE, !.done = TRUE]
    /\ UNCHANGED <<mode, maxWorkers, dryRun, template, pattern, cacheStore,
                   passes, tasks, disp, ctxDone, selected>>

\* key "esc" in template edit mode
Model_EditEsc ==
    /\ Model_KeysLive
    /\ ~ui.done /\ ui.editingTemplate
    /\ ui' = [ui EXCEPT !.editingTemplate = FALSE]
    /\ UNCHANGED <<mode, maxWorkers, dryRun, fs, files, template, pattern,
                   cacheStore, passes, tasks, disp, ctxDone, selected, result,
                   obs>>

TuiNext ==
    \/ Model_Scan
    \/ Model_ScanComplete
    \/ Model_DispatchLoop
    \/ Model_DispatchAcquire
    \/ Model_DispatchFill
    \/ \E t \in tasks : Model_WorkerGet(t)
    \/ \E t \in tasks : Model_WorkerReturn(t)
    \/ Model_AnalyzeComplete
    \/ Model_Quit
    \/ Model_SelectionKey
    \/ Model_EditKey
    \/ \E p \in PatternChoices : Model_EditEnter(p)
    \/ Model_EditEsc
    \/ Model_EnterKey
    \/ Model_RenameCmd

----------------------------------------------------------------------------
(* GUI mode: App *)

\* the FileItem that AddFiles creates for a path
App_NewItem(id, path) ==
    [ID |-> id, OriginalPath |-> path, OriginalName |-> path, NewName |-> <<>>,
     Date |-> <<>>, Service |-> <<>>,
     Status |-> IF isAlreadyRenamed(path) THEN StatusSkipped ELSE StatusPending,
     Error |-> IF isAlreadyRenamed(path) THEN "already renamed format" ELSE "",
     Selected |-> ~isAlreadyRenamed(path),
     AlreadyRenamed |-> isAlreadyRenamed(path)]

RECURSIVE AddFilesFrom(_, _, _, _)
\* the loop of AddFiles from position i (0-based, as in ID = startID + i)
AddFilesFrom(i, paths, startID, fl) ==
    IF i >= Len(paths) THEN fl
    ELSE LET path == paths[i + 1]
         IN IF ~IsPdfPath(path) \/ \E k \in 1..Len(fl) : fl[k].OriginalPath = path
            THEN AddFilesFrom(i + 1, paths, startID, fl)
            ELSE AddFilesFrom(i + 1, paths, startID,
                              Append(fl, App_NewItem(startID + i, path)))

\* App.AddFiles
AddFiles(fl, paths) == AddFilesFrom(0, paths, Len(fl), fl)

\* path lists the GUI is handed: one existing file at a time
AddInputs == {<<x>> : x \in DOMAIN fs}

App_AddFiles(paths) ==
    /\ mode = "gui"
    /\ files' = AddFiles(files, paths)
    /\ Len(files') <= MaxFiles
    /\ files' # files
    /\ UNCHANGED <<mode, maxWorkers, dryRun, fs, template, pattern, cacheStore,
                   passes, tasks, disp, ctxDone, selected, ui, result, obs>>

\* size of the worker pool of analyzeFilesAsync
App_PoolSize(n) == IF n <= 0 THEN 3 ELSE n

\* a selection that also takes failed items up again
App_FilesToAnalyze_Retry(fl) ==
    {i \in 1..Len(fl) : fl[i].Status \in {StatusPending, StatusError}}

\* the items analyzeFilesAsync collects: those whose status is pending
App_FilesToAnalyze(fl) == {i \in 1..Len(fl) : fl[i].Status = StatusPending}

\* App.AnalyzeFiles -> analyzeFilesAsync up to the start of its goroutines; the
\* front-end offers the analysis only while an item is pending
App_analyzeFilesAsync ==
    /\ mode = "gui"
    /\ Len(passes) < MaxPasses
    /\ App_FilesToAnalyze(files) # {}
    /\ LET filesToAnalyze == App_FilesToAnalyze(files)
           p == Len(passes) + 1
       IN /\ files' = [i \in 1..Len(files) |->
                          IF i \in filesToAnalyze
                          THEN [files[i] EXCEPT !.Status = StatusAnalyzing]
                          ELSE files[i]]
          /\ passes' = Append(passes, NewPass(App_PoolSize(maxWorkers),
                                              Cardinality(filesToAnalyze)))
          /\ tasks' = tasks \cup {[pass |-> p, idx |-> i, pc |-> "acquire"] :
                                     i \in filesToAnalyze}
    /\ UNCHANGED <<mode, maxWorkers, dryRun, fs, template, pattern, cacheStore,
                   disp, ctxDone, selected, ui, result, obs>>

\* sem <- struct{}{} of a task
App_Acquire(t) ==
    /\ mode = "gui"
    /\ t \in tasks /\ t.pc = "acquire"
    /\ CanAcquire(t.pass)
    /\ passes' = Acquire(passes, t.pass)
    /\ tasks' = (tasks \ {t}) \cup {[t EXCEPT !.pc = "read"]}
    /\ UNCHANGED <<mode, maxWorkers, dryRun, fs, files, template, pattern,
                   cacheStore, disp, ctxDone, selected, ui, result, obs>>

\* analyzeFile: copy of the item, cache.Get and, on a hit, GenerateName; a hit
\* whose name cannot be generated falls through to the analyzer
App_analyzeFile_Get(t) ==
    /\ mode = "gui"
    /\ t \in tasks /\ t.pc = "read"
    /\ LET path == files[t.idx].OriginalPath
           c    == CacheGet(cacheStore, fs, path)
           g    == GenerateName(template, path, c.info[1])
       IN /\ cacheStore' = c.cache
          /\ IF c.ok /\ ~g.err
             THEN /\ tasks' = (tasks \ {t}) \cup
                                 {[pass |-> t.pass, idx |-> t.idx,
                                   pc |-> "wcached", path |-> path,
                                   info |-> c.info[1], newName |-> g.name]}
                  /\ obs' = [obs EXCEPT !.cacheGet = @ \cup {path}]
             ELSE /\ tasks' = (tasks \ {t}) \cup
                                 {[pass |-> t.pass, idx |-> t.idx, pc |-> "call",
                                   path |-> path]}
                  /\ obs' = [obs EXCEPT !.cacheGet = @ \cup {path},
                                       !.analyzed = @ \cup {path}]
    /\ UNCHANGED <<mode, maxWorkers, dryRun, fs, files, template, pattern,
                   passes, disp, ctxDone, selected, ui, result>>

\* the locked write of a named result to a.files[idx]
App_WriteNamed(fl, t, status) ==
    [fl EXCEPT ![t.idx].Date = t.info.Date,
               ![t.idx].Service = t.info.Service,
               ![t.idx].NewName = t.newName,
               ![t.idx].Status = status]

\* a failure written without its reason
App_WriteError_NoReason(fl, idx, reason) == [fl EXCEPT ![idx].Status = StatusError]

\* the locked write of a failure to a.files[idx]
App_WriteError(fl, idx, reason) ==
    [fl EXCEPT ![idx].Status = StatusError, ![idx].Error = reason]

\* analyzeFile: the write of the cached result; the task then ends
App_analyzeFile_WriteCached(t) ==
    /\ mode = "gui"
    /\ t \in tasks /\ t.pc = "wcached"
    /\ files' = App_WriteNamed(files, t, StatusCached)
    /\ tasks' = tasks \ {t}
    /\ passes' = ReleaseAndDone(passes, t.pass)
    /\ UNCHANGED <<mode, maxWorkers, dryRun, fs, template, pattern, cacheStore,
                   disp, ctxDone, selected, ui, result, obs>>

App_analyzeFile_Return_SetAborts(t) ==
    /\ mode = "gui"
    /\ t \in tasks /\ t.pc = "call"
    /\ \E o \in AnalyzerOutcomes(fs, t.path) :
          LET g == GenerateName(template, t.path, o.info)
              st == CacheSet(cacheStore, fs, t.path, o.info)
          IN IF o.err \/ st.err \/ g.err
             THEN /\ files' = App_WriteError(files, t.idx,
                                 IF o.err THEN "analyzer"
                                 ELSE IF st.err THEN "cache" ELSE "template")
                  /\ tasks' = tasks \ {t}
                  /\ passes' = ReleaseAndDone(passes, t.pass)
                  /\ cacheStore' = IF o.err THEN cacheStore ELSE st.cache
             ELSE /\ cacheStore' = st.cache
                  /\ tasks' = (tasks \ {t}) \cup
                                 {[pass |-> t.pass, idx |-> t.idx,
                                   pc |-> "wready", path |-> t.path,
                                   info |-> o.info, newName |-> g.name]}
                  /\ UNCHANGED <<files, passes>>
    /\ UNCHANGED <<mode, maxWorkers, dryRun, fs, template, pattern, disp,
                   ctxDone, selected, ui, result, obs>>

\* analyzeFile: AnalyzeReceipt returns; on success cache.Set and GenerateName
App_analyzeFile_Return(t) ==
    /\ mode = "gui"
    /\ t \in tasks /\ t.pc = "call"
    /\ \E o \in AnalyzerOutcomes(fs, t.path) :
          LET g == GenerateName(template, t.path, o.info)
          IN IF o.err
             THEN /\ files' = App_WriteError(files, t.idx, "analyzer")
                  /\ tasks' = tasks \ {t}
                  /\ passes' = ReleaseAndDone(passes, t.pass)
                  /\ UNCHANGED cacheStore
             ELSE /\ cacheStore' = CacheSet(cacheStore, fs, t.path, o.info).cache
                  /\ IF g.err
                     THEN /\ files' = App_WriteError(files, t.idx, "template")
                          /\ tasks' = tasks \ {t}
                          /\ passes' = ReleaseAndDone(passes, t.pass)
                     ELSE /\ tasks' = (tasks \ {t}) \cup
                                 {[pass |-> t.pass, idx |-> t.idx,
                                   pc |-> "wready", path |-> t.path,
                                   info |-> o.info, newName |-> g.name]}
                          /\ UNCHANGED <<files, passes>>
    /\ UNCHANGED <<mode, maxWorkers, dryRun, fs, template, pattern, disp,
                   ctxDone, selected, ui, result, obs>>

\* analyzeFile: the write of the analysed result; the task then ends
App_analyzeFile_WriteReady(t) ==
    /\ mode = "gui"
    /\ t \in tasks /\ t.pc = "wready"
    /\ files' = App_WriteNamed(files, t, StatusReady)
    /\ tasks' = tasks \ {t}
    /\ passes' = ReleaseAndDone(passes, t.pass)
    /\ UNCHANGED <<mode, maxWorkers, dryRun, fs, template, pattern, cacheStore,
                   disp, ctxDone, selected, ui, result, obs>>

\* wg.Wait() returns and "analysis-complete" is emitted
App_PassReturn(p) ==
    /\ mode = "gui"
    /\ p \in 1..Len(passes)
    /\ ~passes[p].returned
    /\ WgWait(p)
    /\ passes' = [passes EXCEPT ![p].returned = TRUE]
    /\ UNCHANGED <<mode, maxWorkers, dryRun, fs, files, template, pattern,
                   cacheStore, tasks, disp, ctxDone, selected, ui, result, obs>>

\* App.ToggleFileSelection: the first item carrying the id
ToggleFileSelection(fl, id) ==
    IF \E i \in 1..Len(fl) : fl[i].ID = id
    THEN LET k == CHOOSE i \in 1..Len(fl) :
                      fl[i].ID = id /\ \A j \in 1..(i-1) : fl[j].ID # id
         IN [fl EXCEPT ![k].Selected = ~fl[k].Selected]
    ELSE fl

\* App.SelectAll
App_SelectAll(fl) ==
    [i \in DOMAIN fl |->
        IF fl[i].Status \in {StatusReady, StatusCached}
        THEN [fl[i] EXCEPT !.Selected = TRUE] ELSE fl[i]]

\* App.DeselectAll
App_DeselectAll(fl) == [i \in DOMAIN fl |-> [fl[i] EXCEPT !.Selected = FALSE]]

App_Selection ==
    /\ mode = "gui"
    /\ \/ \E i \in 1..Len(files) : files' = ToggleFileSelection(files, files[i].ID)
       \/ files' = App_SelectAll(files)
       \/ files' = App_DeselectAll(files)
    /\ files' # files
    /\ UNCHANGED <<mode, maxWorkers, dryRun, fs, template, pattern, cacheStore,
                   passes, tasks, disp, ctxDone, selected, ui, result, obs>>

RECURSIVE RenameFilesFrom(_, _, _)
\* a RenameFiles loop that does not look at the selection
RenameFilesFrom_IgnoresSelection(i, st, ioErrs) ==
    IF i > Len(st.files) THEN st
    ELSE LET it == st.files[i]
         IN IF it.Status \notin {StatusReady, StatusCached}
            THEN RenameFilesFrom(i + 1, st, ioErrs)
            ELSE IF it.OriginalName = it.NewName
            THEN RenameFilesFrom(i + 1,
                    [st EXCEPT !.files[i].Status = StatusSkipped,
                               !.total = @ + 1, !.skipped = @ + 1], ioErrs)
            ELSE LET r == Rename(st.fs, it.OriginalPath, it.NewName, i \in ioErrs)
                 IN RenameFilesFrom(i + 1,
                       IF r.err # ""
                       THEN [st EXCEPT !.files[i].Status = StatusError,
                                       !.files[i].Error = r.err,
                                       !.total = @ + 1, !.failed = @ + 1,
                                       !.called = @ \cup {it.OriginalPath}]
                       ELSE [st EXCEPT !.files[i].Status = StatusRenamed,
                                       !.fs = r.fs,
                                       !.total = @ + 1, !.renamed = @ + 1,
                                       !.called = @ \cup {it.OriginalPath}],
                       ioErrs)

\* a RenameFiles loop that gives up at the first Rename that fails
RenameFilesFrom_StopsAtFailure(i, st, ioErrs) ==
    IF i > Len(st.files) THEN st
    ELSE LET it == st.files[i]
         IN IF ~it.Selected \/ it.Status \notin {StatusReady, StatusCached}
            THEN RenameFilesFrom(i + 1, st, ioErrs)
            ELSE IF it.OriginalName = it.NewName
            THEN RenameFilesFrom(i + 1,
                    [st EXCEPT !.files[i].Status = StatusSkipped,
                               !.total = @ + 1, !.skipped = @ + 1], ioErrs)
            ELSE LET r == Rename(st.fs, it.OriginalPath, it.NewName, i \in ioErrs)
                 IN IF r.err # ""
                    THEN [st EXCEPT !.files[i].Status = StatusError,
                                    !.files[i].Error = r.err,
                                    !.total = @ + 1, !.failed = @ + 1,
                                    !.called = @ \cup {it.OriginalPath}]
                    ELSE RenameFilesFrom(i + 1,
                            [st EXCEPT !.files[i].Status = StatusRenamed,
                                       !.fs = r.fs,
                                       !.total = @ + 1, !.renamed = @ + 1,
                                       !.called = @ \cup {it.OriginalPath}],
                            ioErrs)

\* the loop of App.RenameFiles from item i on; st carries files, fs, counts
RenameFilesFrom(i, st, ioErrs) ==
    IF i > Len(st.files) THEN st
    ELSE LET it == st.files[i]
         IN IF ~it.Selected \/ it.Status \notin {StatusReady, StatusCached}
            THEN RenameFilesFrom(i + 1, st, ioErrs)
            ELSE IF it.OriginalName = it.NewName
            THEN RenameFilesFrom(i + 1,
                    [st EXCEPT !.files[i].Status = StatusSkipped,
                               !.total = @ + 1, !.skipped = @ + 1], ioErrs)
            ELSE LET r == Rename(st.fs, it.OriginalPath, it.NewName, i \in ioErrs)
                 IN RenameFilesFrom(i + 1,
                       IF r.err # ""
                       THEN [st EXCEPT !.files[i].Status = StatusError,
                                       !.files[i].Error = r.err,
                                       !.total = @ + 1, !.failed = @ + 1,
                                       !.called = @ \cup {it.OriginalPath}]
                       ELSE [st EXCEPT !.files[i].Status = StatusRenamed,
                                       !.fs = r.fs,
                                       !.total = @ + 1, !.renamed = @ + 1,
                                       !.called = @ \cup {it.OriginalPath}],
                       ioErrs)

\* App.RenameFiles
App_RenameFiles ==
    /\ mode = "gui"
    /\ \E i \in 1..Len(files) :
          files[i].Selected /\ files[i].Status \in {StatusReady, StatusCached}
    /\ \E ioErrs \in SUBSET (1..Len(files)) :
          LET st == RenameFilesFrom(1,
                       [files |-> files, fs |-> fs, total |-> 0, renamed |-> 0,
                        failed |-> 0, skipped |-> 0, called |-> {}], ioErrs)
          IN /\ files' = st.files
             /\ fs' = st.fs
             /\ result' = [Renamed |-> st.renamed, Failed |-> st.failed,
                           Skipped |-> st.skipped, Total |-> st.total]
             /\ obs' = [obs EXCEPT !.renamed = @ \cup st.called]
    /\ UNCHANGED <<mode, maxWorkers, dryRun, template, pattern, cacheStore,
                   passes, tasks, disp, ctxDone, selected, ui>>

\* a regeneration that marks the item failed when its name cannot be generated
App_Regenerate_Fail(fl, tmpl) ==
    [i \in DOMAIN fl |->
        IF fl[i].Status \in {StatusReady, StatusCached}
        THEN LET g == GenerateName(tmpl, fl[i].OriginalPath,
                                   [Date |-> fl[i].Date, Service |-> fl[i].Service])
             IN IF g.err
                THEN [fl[i] EXCEPT !.Status = StatusError, !.Error = "template"]
                ELSE [fl[i] EXCEPT !.NewName = g.name]
        ELSE fl[i]]

\* the regeneration loop of UpdateServicePattern: a name that cannot be
\* generated leaves the item as it is
App_Regenerate(fl, tmpl) ==
    [i \in DOMAIN fl |->
        IF fl[i].Status \in {StatusReady, StatusCached}
        THEN LET g == GenerateName(tmpl, fl[i].OriginalPath,
                                   [Date |-> fl[i].Date, Service |-> fl[i].Service])
             IN IF g.err THEN fl[i] ELSE [fl[i] EXCEPT !.NewName = g.name]
        ELSE fl[i]]

\* App.UpdateServicePattern; saveErr: config.Save fails. ui.templateError
\* holds whether the call returned an error
App_UpdateServicePattern(newPattern, saveErr) ==
    /\ mode = "gui"
    /\ LET fullTemplate == BuildFullTemplate(newPattern)
           u == UpdateTemplate(template, fullTemplate)
       IN IF ValidateTemplate(fullTemplate) \/ u.err
          THEN /\ ui' = [ui EXCEPT !.templateError = TRUE]
               /\ UNCHANGED <<template, pattern, files>>
          ELSE /\ template' = u.template
               /\ pattern' = newPattern
               /\ ui' = [ui EXCEPT !.templateError = saveErr]
               /\ files' = IF saveErr THEN files
                           ELSE App_Regenerate(files, u.template)
    /\ UNCHANGED <<mode, maxWorkers, dryRun, fs, cacheStore, passes, tasks,
                   disp, ctxDone, selected, result, obs>>

GuiNext ==
    \/ \E paths \in AddInputs : App_AddFiles(paths)
    \/ App_analyzeFilesAsync
    \/ \E t \in tasks : App_Acquire(t)
    \/ \E t \in tasks : App_analyzeFile_Get(t)
    \/ \E t \in tasks : App_analyzeFile_WriteCached(t)
    \/ \E t \in tasks : App_analyzeFile_Return(t)
    \/ \E t \in tasks : App_analyzeFile_WriteReady(t)
    \/ \E p \in 1..MaxPasses : App_PassReturn(p)
    \/ App_Selection
    \/ App_RenameFiles
    \/ \E p \in PatternChoices, saveErr \in BOOLEAN :
          App_UpdateServicePattern(p, saveErr)

Next == HeadlessNext \/ TuiNext \/ GuiNext

Spec == Init /\ [][Next]_vars

SpecCfg == InitCfg /\ [][Next]_vars

----------------------------------------------------------------------------
(* The Renamer on a directory tree: UpdateTemplate, GenerateName and Rename *)
(* for one file of the directory r/d, with analyzer results and pattern     *)
(* fragments that need not be well behaved                                  *)

DirRD == <<"r", "/", "d">>

PathA == DirRD \o <<"/">> \o NameA

PathB == DirRD \o <<"/">> \o NameB

\* the files of the tree before the run; r/d/n has no extension
TreeFiles ==
    {PathA, PathB, DirRD \o <<"/">> \o NameDoneA, <<"r", "/">> \o NameA,
     DirRD \o <<"/", "n">>}

\* dates an analyzer may answer: as asked for, or leading out of the directory
NamerDates == {DateStr, <<".", ".", "/">> \o DateStr}

\* service names an analyzer may answer; the last one holds a tab
NamerServices ==
    {<<"C", "/">>, <<"A", "/", "*", " ", "B">>, <<".", ".">>,
     <<"A", "\t", "B">>}

\* fragments a user may submit: a field, text, text with separators, a field
\* TemplateData lacks, an unclosed action
NamerFragments ==
    {<<TokSvc>>, <<"X">>, <<"/", ".", ".", "/", ".", ".", "/", "X">>,
     <<TokFoo>>, <<TokBroken>>}

InitNamer ==
    /\ mode = "renamer"
    /\ maxWorkers = 1
    /\ dryRun = FALSE
    /\ fs = [n \in TreeFiles |-> "bytesA"]
    /\ files = <<>>
    /\ template = TemplateParse(DefaultTemplate).tree
    /\ pattern = <<TokSvc>>
    /\ cacheStore = NewCache(TRUE, 0, TRUE, <<>>)
    /\ passes = <<>>
    /\ tasks = {}
    /\ disp = IdleDisp
    /\ ctxDone = FALSE
    /\ selected = <<>>
    /\ \E src \in {PathA, PathB, DirRD \o <<"/", "n">>},
          d \in NamerDates, sv \in NamerServices :
          ui = [pc |-> "start", src |-> src,
                info |-> [Date |-> d, Service |-> sv],
                name |-> <<>>, err |-> ""]
    /\ result = NoResult
    /\ obs = [analyzed |-> {}, cacheGet |-> {}, renamed |-> {}]

\* config.ValidateTemplate and Renamer.UpdateTemplate for a submitted fragment
Namer_UpdateTemplate(fragment) ==
    /\ mode = "renamer"
    /\ ui.pc = "start"
    /\ fragment # pattern
    /\ LET fullTemplate == BuildFullTemplate(fragment)
           u == UpdateTemplate(template, fullTemplate)
       IN IF ValidateTemplate(fullTemplate) \/ u.err
          THEN /\ ui' = [ui EXCEPT !.err = "invalid template"]
               /\ UNCHANGED <<template, pattern>>
          ELSE /\ template' = u.template
               /\ pattern' = fragment
               /\ ui' = [ui EXCEPT !.err = ""]
    /\ UNCHANGED <<mode, maxWorkers, dryRun, fs, files, cacheStore, passes,
                   tasks, disp, ctxDone, selected, result, obs>>

\* Renamer.GenerateName for the file and the analyzer's result
Namer_GenerateName ==
    /\ mode = "renamer"
    /\ ui.pc = "start"
    /\ LET g == GenerateName(template, ui.src, ui.info)
       IN ui' = IF g.err
                THEN [ui EXCEPT !.pc = "failed",
                                !.err = "failed to execute template"]
                ELSE [ui EXCEPT !.pc = "named", !.name = g.name, !.err = ""]
    /\ UNCHANGED <<mode, maxWorkers, dryRun, fs, files, template, pattern,
                   cacheStore, passes, tasks, disp, ctxDone, selected, result,
                   obs>>

\* Renamer.Rename of the file to the generated name
Namer_Rename(ioErr) ==
    /\ mode = "renamer"
    /\ ui.pc = "named"
    /\ LET r == Rename(fs, ui.src, ui.name, ioErr)
       IN /\ fs' = r.fs
          /\ ui' = [ui EXCEPT !.pc = "done", !.err = r.err]
    /\ obs' = [obs EXCEPT !.renamed = @ \cup {ui.src}]
    /\ UNCHANGED <<mode, maxWorkers, dryRun, files, template, pattern,
                   cacheStore, passes, tasks, disp, ctxDone, selected, result>>

NextNamer ==
    \/ \E fragment \in NamerFragments : Namer_UpdateTemplate(fragment)
    \/ Namer_GenerateName
    \/ \E ioErr \in BOOLEAN : Namer_Rename(ioErr)

SpecNamer == InitNamer /\ [][NextNamer]_vars

----------------------------------------------------------------------------
(* The Cache under an environment that ages, corrupts and edits files, and *)
(* the analysis of the GUI and of the headless run over such a cache        *)

\* days an entry may age in the model
MaxAge == 2

\* cfg.Cache.TTL: 0 (the default, no expiry) or one day
TtlDays == {0, 1}

\* a second answer of an analyzer
InfoD == [Date |-> DateStr, Service |-> <<"X">>]

\* entry files a cache directory may hold for the content of a.pdf and b.PDF
\* when a front-end starts: none, one written by an earlier run some days ago,
\* one that does not parse
InitEntries ==
    LET h == <<"sha256", "bytesA">>
    IN {<<>>} \cup
       {h :> [EntryFile(h, InfoD) EXCEPT !.Age = a] : a \in 0..MaxAge} \cup
       {h :> [EntryFile(h, InfoD) EXCEPT !.Valid = FALSE]}

\* the calls made on the cache so far: the last call and its return values,
\* the last successful Set that nothing has interfered with since
NoCall ==
    [op |-> "none", path |-> <<>>, err |-> FALSE, found |-> FALSE,
     info |-> <<>>, had |-> FALSE, setPath |-> <<>>, setInfo |-> <<>>]

InitCache ==
    /\ mode \in {"cache", "gui", "headless"}
    /\ maxWorkers = 1
    /\ dryRun = FALSE
    /\ fs = [n \in {NameA, NameB} |-> InitContent(n)]
    /\ files = <<>>
    /\ template = TemplateParse(DefaultTemplate).tree
    /\ pattern = <<TokSvc>>
    /\ \E enabled \in BOOLEAN, ttl \in TtlDays, writable \in BOOLEAN,
          entries \in InitEntries :
          cacheStore = NewCache(enabled, ttl, writable,
                                IF mode = "cache" THEN <<>> ELSE entries)
    /\ passes = <<>>
    /\ tasks = {}
    /\ disp = IdleDisp
    /\ ctxDone = FALSE
    /\ selected = <<>>
    /\ ui = IF mode = "cache" THEN NoCall ELSE InitUi
    /\ result = NoResult
    /\ obs = [analyzed |-> {}, cacheGet |-> {}, renamed |-> {}]

\* a call of Cache.Set; obs.analyzed collects the contents Set was called for
Cache_Set(path, info) ==
    /\ mode = "cache"
    /\ LET r == CacheSet(cacheStore, fs, path, info)
           stored == cacheStore.enabled /\ ~r.err
       IN /\ cacheStore' = r.cache
          /\ ui' = [op |-> "set", path |-> path, err |-> r.err,
                    found |-> FALSE, info |-> <<>>, had |-> FALSE,
                    setPath |-> IF stored THEN path ELSE <<>>,
                    setInfo |-> IF stored THEN <<info>> ELSE <<>>]
          /\ obs' = [obs EXCEPT !.analyzed =
                        IF Exists(fs, path) THEN @ \cup {fs[path]} ELSE @]
    /\ UNCHANGED <<mode, maxWorkers, dryRun, fs, files, template, pattern,
                   passes, tasks, disp, ctxDone, selected, result>>

\* a call of Cache.Get; had: an entry that parses was there for the content
Cache_Get(path) ==
    /\ mode = "cache"
    /\ LET c == CacheGet(cacheStore, fs, path)
           h == hashFile(fs, path)
       IN /\ cacheStore' = c.cache
          /\ ui' = [ui EXCEPT !.op = "get", !.path = path, !.err = FALSE,
                              !.found = c.ok, !.info = c.info,
                              !.had = /\ ~h.err
                                      /\ h.hash \in DOMAIN cacheStore.entries
                                      /\ cacheStore.entries[h.hash].Valid]
    /\ UNCHANGED <<mode, maxWorkers, dryRun, fs, files, template, pattern,
                   passes, tasks, disp, ctxDone, selected, result, obs>>

\* a day passes
Env_Day ==
    /\ mode = "cache"
    /\ DOMAIN cacheStore.entries # {}
    /\ \A h \in DOMAIN cacheStore.entries : cacheStore.entries[h].Age < MaxAge
    /\ cacheStore' = [cacheStore EXCEPT !.entries =
                         [h \in DOMAIN @ |-> [@[h] EXCEPT !.Age = @ + 1]]]
    /\ ui' = [NoCall EXCEPT !.op = "env"]
    /\ UNCHANGED <<mode, maxWorkers, dryRun, fs, files, template, pattern,
                   passes, tasks, disp, ctxDone, selected, result, obs>>

\* the bytes of a file are changed
Env_Edit(path) ==
    /\ mode = "cache"
    /\ Exists(fs, path) /\ fs[path] # "bytesE"
    /\ fs' = [fs EXCEPT ![path] = "bytesE"]
    /\ ui' = [NoCall EXCEPT !.op = "env"]
    /\ UNCHANGED <<mode, maxWorkers, dryRun, files, template, pattern,
                   cacheStore, passes, tasks, disp, ctxDone, selected, result,
                   obs>>

\* a file is removed, so that it can no longer be read
Env_Remove(path) ==
    /\ mode = "cache"
    /\ Exists(fs, path)
    /\ fs' = [n \in DOMAIN fs \ {path} |-> fs[n]]
    /\ ui' = [NoCall EXCEPT !.op = "env"]
    /\ UNCHANGED <<mode, maxWorkers, dryRun, files, template, pattern,
                   cacheStore, passes, tasks, disp, ctxDone, selected, result,
                   obs>>

\* an entry file is damaged, so that it no longer parses
Env_Corrupt(hash) ==
    /\ mode = "cache"
    /\ hash \in DOMAIN cacheStore.entries
    /\ cacheStore.entries[hash].Valid
    /\ cacheStore' = [cacheStore EXCEPT !.entries[hash].Valid = FALSE]
    /\ ui' = [NoCall EXCEPT !.op = "env"]
    /\ UNCHANGED <<mode, maxWorkers, dryRun, fs, files, template, pattern,
                   passes, tasks, disp, ctxDone, selected, result, obs>>

\* an entry file is rewritten as JSON that parses and holds no result, such
\* as {"analyzed_at": ..., "result": null}: CacheEntry.Result decodes to nil,
\* which is the record [nil |-> TRUE] here
Env_Blank(hash) ==
    /\ mode = "cache"
    /\ hash \in DOMAIN cacheStore.entries
    /\ cacheStore.entries[hash].Valid
    /\ cacheStore.entries[hash].Result # [nil |-> TRUE]
    /\ cacheStore' = [cacheStore EXCEPT !.entries[hash].Result = [nil |-> TRUE]]
    /\ ui' = [NoCall EXCEPT !.op = "env"]
    /\ UNCHANGED <<mode, maxWorkers, dryRun, fs, files, template, pattern,
                   passes, tasks, disp, ctxDone, selected, result, obs>>

\* a Clear that removes only the entry files that parse
Cache_Clear_KeepsDamaged(ioErr) ==
    /\ mode = "cache"
    /\ LET left == {h \in DOMAIN cacheStore.entries :
                       ~cacheStore.entries[h].Valid}
       IN /\ cacheStore' = [cacheStore EXCEPT !.entries =
                               [h \in left |-> cacheStore.entries[h]]]
          /\ ui' = [NoCall EXCEPT !.op = "clear", !.err = FALSE]
    /\ UNCHANGED <<mode, maxWorkers, dryRun, fs, files, template, pattern,
                   passes, tasks, disp, ctxDone, selected, result, obs>>

\* a call of Cache.Clear: every *.json file of the directory is removed, in
\* the order of ReadDir, until an os.Remove fails; ioErr: one fails. The
\* order of the hashes is not modelled: any files but the failing one may be
\* gone by then. Clear does not look at c.enabled
Cache_Clear(ioErr) ==
    /\ mode = "cache"
    /\ LET all == DOMAIN cacheStore.entries
           fails == all # {} /\ (ioErr \/ ~cacheStore.writable)
       IN \E left \in SUBSET all :
             /\ IF fails THEN left # {} ELSE left = {}
             /\ cacheStore' = [cacheStore EXCEPT !.entries =
                                  [h \in left |-> cacheStore.entries[h]]]
             /\ ui' = [NoCall EXCEPT !.op = "clear", !.err = fails]
    /\ UNCHANGED <<mode, maxWorkers, dryRun, fs, files, template, pattern,
                   passes, tasks, disp, ctxDone, selected, result, obs>>

\* a call of Cache.Count: the number of *.json files ReadDir lists; ioErr:
\* ReadDir fails for a reason other than a missing directory. result.Total
\* holds the count returned
Cache_Count(ioErr) ==
    /\ mode = "cache"
    /\ result' = [result EXCEPT !.Total =
                     IF ioErr THEN 0
                     ELSE Cardinality(DOMAIN cacheStore.entries)]
    /\ ui' = [NoCall EXCEPT !.op = "count", !.err = ioErr]
    /\ UNCHANGED <<mode, maxWorkers, dryRun, fs, files, template, pattern,
                   cacheStore, passes, tasks, disp, ctxDone, selected, obs>>

NextCache ==
    \/ \E path \in {NameA, NameB}, info \in {InfoC, InfoD} : Cache_Set(path, info)
    \/ \E path \in {NameA, NameB} : Cache_Get(path)
    \/ \E ioErr \in BOOLEAN : Cache_Clear(ioErr)
    \/ \E ioErr \in BOOLEAN : Cache_Count(ioErr)
    \/ Env_Day
    \/ \E path \in {NameA, NameB} : Env_Edit(path)
    \/ \E path \in {NameA, NameB} : Env_Remove(path)
    \/ \E hash \in DOMAIN cacheStore.entries : Env_Corrupt(hash)
    \/ \E hash \in DOMAIN cacheStore.entries : Env_Blank(hash)
    \/ HeadlessNext
    \/ \E paths \in AddInputs : App_AddFiles(paths)
    \/ App_analyzeFilesAsync
    \/ \E t \in tasks : App_Acquire(t)
    \/ \E t \in tasks : App_analyzeFile_Get(t)
    \/ \E t \in tasks : App_analyzeFile_WriteCached(t)
    \/ \E t \in tasks : App_analyzeFile_Return(t)
    \/ \E t \in tasks : App_analyzeFile_WriteReady(t)
    \/ \E p \in 1..MaxPasses : App_PassReturn(p)

SpecCache == InitCache /\ [][NextCache]_vars

----------------------------------------------------------------------------
(* The GUI App after a Startup whose initializeServices returned an error:  *)
(* Startup drops the error and the App goes on with the fields that were    *)
(* assigned before the failing step                                         *)

\* ui.setup: what initializeServices left behind. "noconfig": config.Load failed, every
\* field is nil. "nokey": no API key was found, so no provider was made, but
\* cache and renamer were. "noprovider": a key is there and ai.NewProvider
\* failed, so config is set and provider, cache and renamer are nil
InitSetup ==
    /\ mode = "gui"
    /\ maxWorkers \in 0..MaxWorkersCfg
    /\ dryRun = FALSE
    /\ \E D \in SUBSET {NameA, NameB} : fs = [n \in D |-> InitContent(n)]
    /\ files = <<>>
    /\ template = TemplateParse(DefaultTemplate).tree
    /\ pattern = <<TokSvc>>
    /\ \E entries \in InitEntries : cacheStore = NewCache(TRUE, 0, TRUE, entries)
    /\ passes = <<>>
    /\ tasks = {}
    /\ disp = IdleDisp
    /\ ctxDone = FALSE
    /\ selected = <<>>
    /\ \E s \in {"noconfig", "nokey", "noprovider"} : ui = [setup |-> s, crashed |-> FALSE]
    /\ result = NoResult
    /\ obs = [analyzed |-> {}, cacheGet |-> {}, renamed |-> {}]

\* App.AnalyzeFiles -> analyzeFilesAsync: the pending items are marked
\* Analyzing under the lock, then a.config.AI.MaxWorkers is read, which is a
\* nil dereference when config.Load had failed
App_analyzeFilesAsync_AfterFailedSetup ==
    /\ mode = "gui"
    /\ Len(passes) < MaxPasses
    /\ App_FilesToAnalyze(files) # {}
    /\ LET filesToAnalyze == App_FilesToAnalyze(files)
           p == Len(passes) + 1
       IN /\ files' = [i \in 1..Len(files) |->
                          IF i \in filesToAnalyze
                          THEN [files[i] EXCEPT !.Status = StatusAnalyzing]
                          ELSE files[i]]
          /\ IF ui.setup = "noconfig"
             THEN /\ ui' = [ui EXCEPT !.crashed = TRUE]
                  /\ UNCHANGED <<passes, tasks>>
             ELSE /\ passes' = Append(passes, NewPass(App_PoolSize(maxWorkers),
                                                      Cardinality(filesToAnalyze)))
                  /\ tasks' = tasks \cup
                                {[pass |-> p, idx |-> i, pc |-> "acquire"] :
                                    i \in filesToAnalyze}
                  /\ UNCHANGED ui
    /\ UNCHANGED <<mode, maxWorkers, dryRun, fs, template, pattern, cacheStore,
                   disp, ctxDone, selected, result, obs>>

\* analyzeFile arrives at a.provider.AnalyzeReceipt with a nil provider: after
\* a cache miss, or at once when a.cache is nil as well
App_analyzeFile_NilProvider(t) ==
    /\ mode = "gui"
    /\ t \in tasks
    /\ \/ t.pc = "call"
       \/ t.pc = "read" /\ ui.setup = "noprovider"
    /\ ui' = [ui EXCEPT !.crashed = TRUE]
    /\ UNCHANGED <<mode, maxWorkers, dryRun, fs, files, template, pattern,
                   cacheStore, passes, tasks, disp, ctxDone, selected, result,
                   obs>>

\* the calls a front-end makes on such an App until the process dies
NextSetup ==
    \/ \E paths \in AddInputs : ~ui.crashed /\ App_AddFiles(paths)
    \/ ~ui.crashed /\ App_analyzeFilesAsync_AfterFailedSetup
    \/ \E t \in tasks : ~ui.crashed /\ App_Acquire(t)
    \/ \E t \in tasks :
          ~ui.crashed /\ ui.setup = "nokey" /\ App_analyzeFile_Get(t)
    \/ \E t \in tasks : ~ui.crashed /\ App_analyzeFile_WriteCached(t)
    \/ \E t \in tasks : ~ui.crashed /\ App_analyzeFile_NilProvider(t)

SpecSetup == InitSetup /\ [][NextSetup]_vars

----------------------------------------------------------------------------
(* The service pattern history: History.Get and History.Add on the history *)
(* file. ui.file tells whether the file is missing, holds bytes that are    *)
(* not JSON, or holds the list ui.history; ui.last and ui.err are the       *)
(* argument and the return of the last Add; ui.recent is the record kept    *)
(* for the check: the patterns whose Add returned no error, latest first    *)

\* history.MaxItems
MaxItems == 20

\* the distinct patterns a run may add
MaxPatterns == 21

\* History.Get: the list of the file, empty when it cannot be read or parsed
History_Get(u) == IF u.file = "list" THEN u.history ELSE <<>>

InitHistory ==
    /\ mode = "history"
    /\ maxWorkers = 1
    /\ dryRun = FALSE
    /\ fs = <<>>
    /\ files = <<>>
    /\ template = TemplateParse(DefaultTemplate).tree
    /\ pattern = <<TokSvc>>
    /\ cacheStore = NewCache(TRUE, 0, TRUE, <<>>)
    /\ passes = <<>>
    /\ tasks = {}
    /\ disp = IdleDisp
    /\ ctxDone = FALSE
    /\ selected = <<>>
    /\ \E f \in {"missing", "invalid"} :
          ui = [file |-> f, history |-> <<>>, recent |-> <<>>,
                last |-> "", err |-> FALSE]
    /\ result = NoResult
    /\ obs = [analyzed |-> {}, cacheGet |-> {}, renamed |-> {}]

\* an Add that puts the pattern at the end of the list
History_Add_Appends(p, ioErr) ==
    /\ mode = "history"
    /\ IF p = "" \/ ioErr
       THEN ui' = [ui EXCEPT !.last = p, !.err = (p # "")]
       ELSE LET history == History_Get(ui)
                newHistory == SelectSeq(history, LAMBDA q : q # p) \o <<p>>
            IN ui' = [file |-> "list",
                      history |-> IF Len(newHistory) > MaxItems
                                  THEN SubSeq(newHistory, 1, MaxItems)
                                  ELSE newHistory,
                      recent |-> <<p>> \o SelectSeq(ui.recent, LAMBDA q : q # p),
                      last |-> p, err |-> FALSE]
    /\ UNCHANGED <<mode, maxWorkers, dryRun, fs, files, template, pattern,
                   cacheStore, passes, tasks, disp, ctxDone, selected, result,
                   obs>>

\* History.Add; ioErr: MkdirAll or WriteFile fails, the file stays as it is
History_Add(p, ioErr) ==
    /\ mode = "history"
    /\ IF p = "" \/ ioErr
       THEN ui' = [ui EXCEPT !.last = p, !.err = (p # "")]
       ELSE LET history == History_Get(ui)
                newHistory == <<p>> \o SelectSeq(history, LAMBDA q : q # p)
            IN ui' = [file |-> "list",
                      history |-> IF Len(newHistory) > MaxItems
                                  THEN SubSeq(newHistory, 1, MaxItems)
                                  ELSE newHistory,
                      recent |-> <<p>> \o SelectSeq(ui.recent, LAMBDA q : q # p),
                      last |-> p, err |-> FALSE]
    /\ UNCHANGED <<mode, maxWorkers, dryRun, fs, files, template, pattern,
                   cacheStore, passes, tasks, disp, ctxDone, selected, result,
                   obs>>

\* the patterns submitted: the empty one, the first two again, a new one;
\* the k-th new pattern is the numeral of k
NextHistory ==
    \E p \in {"", ToString(1), ToString(2),
              ToString(IF Len(ui.recent) < MaxPatterns
                        THEN Len(ui.recent) + 1 ELSE 1)},
       ioErr \in BOOLEAN : History_Add(p, ioErr)

SpecHistory == InitHistory /\ [][NextHistory]_vars

-----------------------------------------------------------------------------
(* GUI mode: the item collection under ClearFiles, OnFileOpen and DomReady *)

\* a path that is not a PDF                                      \* note.txt
NameTxt == <<"n", "o", "t", "e", ".", "t", "x", "t">>

\* path lists AddFiles is handed by the front-end: PDF and other paths,
\* paths already present, a path twice, a name of the renamed shape
FileLists ==
    {<<NameA>>, <<NameB>>, <<NameDoneA>>, <<NameTxt, NameA>>, <<NameA, NameA>>}

\* ui.dom: how far DomReady has come. ui.holder: the call of OnFileOpen that
\* holds pendingMu, as <<filePath>>. ui.pendingFiles: a.pendingFiles.
\* ui.local: the pendingFiles variable of DomReady. ui.args: os.Args[1:].
\* ui.buffered, ui.direct: the paths whose OnFileOpen has returned after
\* buffering, after adding. ui.cleared: ClearFiles was called
InitFiles ==
    /\ mode = "gui"
    /\ maxWorkers = 1
    /\ dryRun = FALSE
    /\ fs = [n \in {NameA, NameB, NameDoneA} |-> InitContent(n)]
    /\ files = <<>>
    /\ template = TemplateParse(DefaultTemplate).tree
    /\ pattern = <<TokSvc>>
    /\ cacheStore = NewCache(TRUE, 0, TRUE, <<>>)
    /\ passes = <<>>
    /\ tasks = {}
    /\ disp = IdleDisp
    /\ ctxDone = FALSE
    /\ selected = <<>>
    /\ \E args \in {<<>>, <<NameTxt, NameB>>} :
          ui = [dom |-> "start", holder |-> <<>>, pendingFiles |-> <<>>,
                local |-> <<>>, args |-> args, buffered |-> {}, direct |-> {},
                cleared |-> FALSE, crashed |-> FALSE]
    /\ result = NoResult
    /\ obs = [analyzed |-> {}, cacheGet |-> {}, renamed |-> {}]

\* App.ClearFiles: a new empty slice under the lock; tasks in flight go on
App_ClearFiles ==
    /\ mode = "gui"
    /\ files' = <<>>
    /\ ui' = [ui EXCEPT !.cleared = TRUE]
    /\ UNCHANGED <<mode, maxWorkers, dryRun, fs, template, pattern, cacheStore,
                   passes, tasks, disp, ctxDone, selected, result, obs>>

\* analyzeFile reads or writes a.files[idx] past the end of the slice: the
\* runtime panics. A task at the analyzer may have stored its result in the
\* cache before it arrives at the write
App_analyzeFile_OutOfRange(t) ==
    /\ mode = "gui"
    /\ t \in tasks /\ t.pc \in {"read", "call", "wcached", "wready"}
    /\ t.idx > Len(files)
    /\ ui' = [ui EXCEPT !.crashed = TRUE]
    /\ cacheStore' \in
          {cacheStore} \cup
          (IF t.pc = "call"
           THEN {CacheSet(cacheStore, fs, t.path, o.info).cache :
                    o \in {x \in AnalyzerOutcomes(fs, t.path) : ~x.err}}
           ELSE {})
    /\ UNCHANGED <<mode, maxWorkers, dryRun, fs, files, template, pattern,
                   passes, tasks, disp, ctxDone, selected, result, obs>>

\* App.OnFileOpen, first half: pendingMu.Lock()
App_OnFileOpen_Lock(filePath) ==
    /\ mode = "gui"
    /\ ui.holder = <<>>
    /\ Len(ui.pendingFiles) < MaxFiles
    /\ ui' = [ui EXCEPT !.holder = <<filePath>>]
    /\ UNCHANGED <<mode, maxWorkers, dryRun, fs, files, template, pattern,
                   cacheStore, passes, tasks, disp, ctxDone, selected, result,
                   obs>>

\* an OnFileOpen that adds the file before the DOM is ready and forgets it
App_OnFileOpen_Body_NoBuffer ==
    /\ mode = "gui"
    /\ ui.holder # <<>>
    /\ LET filePath == ui.holder[1]
       IN IF ~(ui.dom # "start")
          THEN /\ ui' = [ui EXCEPT !.buffered = @ \cup {filePath},
                                   !.holder = <<>>]
               /\ UNCHANGED files
          ELSE /\ files' = AddFiles(files, <<filePath>>)
               /\ ui' = [ui EXCEPT !.direct = @ \cup {filePath},
                                   !.holder = <<>>]
    /\ UNCHANGED <<mode, maxWorkers, dryRun, fs, template, pattern, cacheStore,
                   passes, tasks, disp, ctxDone, selected, result, obs>>

\* App.OnFileOpen, second half, with pendingMu held: the path is buffered
\* while domReady is false and handed to AddFiles otherwise; the deferred
\* Unlock ends the call
App_OnFileOpen_Body ==
    /\ mode = "gui"
    /\ ui.holder # <<>>
    /\ LET filePath == ui.holder[1]
       IN IF ~(ui.dom # "start")
          THEN /\ ui' = [ui EXCEPT !.pendingFiles = Append(@, filePath),
                                   !.buffered = @ \cup {filePath},
                                   !.holder = <<>>]
               /\ UNCHANGED files
          ELSE /\ files' = AddFiles(files, <<filePath>>)
               /\ ui' = [ui EXCEPT !.direct = @ \cup {filePath},
                                   !.holder = <<>>]
    /\ UNCHANGED <<mode, maxWorkers, dryRun, fs, template, pattern, cacheStore,
                   passes, tasks, disp, ctxDone, selected, result, obs>>

\* App.DomReady in its three steps: the section under pendingMu that sets
\* domReady and takes the buffer; AddFiles of the buffer when it is not
\* empty; AddFiles of the PDF paths among the command line arguments
App_DomReady ==
    /\ mode = "gui"
    /\ \/ /\ ui.dom = "start" /\ ui.holder = <<>>
          /\ ui' = [ui EXCEPT !.dom = "taken", !.local = ui.pendingFiles,
                              !.pendingFiles = <<>>]
          /\ UNCHANGED files
       \/ /\ ui.dom = "taken"
          /\ files' = IF Len(ui.local) > 0 THEN AddFiles(files, ui.local)
                      ELSE files
          /\ ui' = [ui EXCEPT !.dom = "added", !.local = <<>>]
       \/ /\ ui.dom = "added"
          /\ LET pdfFiles == SelectSeq(ui.args, IsPdfPath)
             IN files' = IF Len(pdfFiles) > 0 THEN AddFiles(files, pdfFiles)
                         ELSE files
          /\ ui' = [ui EXCEPT !.dom = "done"]
    /\ UNCHANGED <<mode, maxWorkers, dryRun, fs, template, pattern, cacheStore,
                   passes, tasks, disp, ctxDone, selected, result, obs>>

\* the calls made on the App while no analysis runs
NextFiles ==
    \/ \E paths \in FileLists : App_AddFiles(paths)
    \/ App_ClearFiles
    \/ App_Selection
    \/ \E filePath \in {NameA, NameB, NameTxt} : App_OnFileOpen_Lock(filePath)
    \/ App_OnFileOpen_Body
    \/ App_DomReady

SpecFiles == InitFiles /\ [][NextFiles]_vars

\* an App whose front-end is ready, with one worker and two files to pick
\* from, one of them of the renamed shape
InitClear ==
    /\ mode = "gui"
    /\ maxWorkers = 1
    /\ dryRun = FALSE
    /\ fs = [n \in {NameA, NameDoneA} |-> InitContent(n)]
    /\ files = <<>>
    /\ template = TemplateParse(DefaultTemplate).tree
    /\ pattern = <<TokSvc>>
    /\ cacheStore = NewCache(TRUE, 0, TRUE, <<>>)
    /\ passes = <<>>
    /\ tasks = {}
    /\ disp = IdleDisp
    /\ ctxDone = FALSE
    /\ selected = <<>>
    /\ ui = [cleared |-> FALSE, crashed |-> FALSE, templateError |-> FALSE]
    /\ result = NoResult
    /\ obs = [analyzed |-> {}, cacheGet |-> {}, renamed |-> {}]

\* the calls made on the App until the process dies; a task steps on while
\* its index is inside the slice; the service pattern is set to the service
\* field or to the text X
NextClear ==
    \/ \E paths \in AddInputs : ~ui.crashed /\ App_AddFiles(paths)
    \/ ~ui.crashed /\ App_ClearFiles
    \/ ~ui.crashed /\ App_analyzeFilesAsync
    \/ \E t \in tasks : ~ui.crashed /\ App_Acquire(t)
    \/ \E t \in tasks :
          ~ui.crashed /\ t.idx <= Len(files) /\ App_analyzeFile_Get(t)
    \/ \E t \in tasks :
          ~ui.crashed /\ t.idx <= Len(files) /\ App_analyzeFile_WriteCached(t)
    \/ \E t \in tasks :
          ~ui.crashed /\ t.idx <= Len(files) /\ App_analyzeFile_Return(t)
    \/ \E t \in tasks :
          ~ui.crashed /\ t.idx <= Len(files) /\ App_analyzeFile_WriteReady(t)
    \/ \E t \in tasks : ~ui.crashed /\ App_analyzeFile_OutOfRange(t)
    \/ \E p \in 1..Len(passes) : ~ui.crashed /\ App_PassReturn(p)
    \/ \E newPattern \in {<<TokSvc>>, <<"X">>}, saveErr \in BOOLEAN :
          ~ui.crashed /\ App_UpdateServicePattern(newPattern, saveErr)

SpecClear == InitClear /\ [][NextClear]_vars

-----------------------------------------------------------------------------
(* Headless mode: Renamer.Rename as the two system calls it makes *)

\* a second file of the directory                                  \* c.pdf
NameC == <<"c">> \o PdfExt

\* a run over a.pdf and c.pdf whose configuration names files by date and
\* service alone, so that both files get the same name
InitRace ==
    /\ mode = "headless"
    /\ maxWorkers \in 1..MaxWorkersCfg
    /\ dryRun = FALSE
    /\ fs = [n \in {NameA, NameC} |-> InitContent(n)]
    /\ files = <<>>
    /\ \E t \in {<<TokDate, "-", TokSvc>>, DefaultTemplate} :
          template = TemplateParse(t).tree
    /\ pattern = <<>>
    /\ cacheStore = NewCache(TRUE, 0, TRUE, <<>>)
    /\ passes = <<>>
    /\ tasks = {}
    /\ disp = IdleDisp
    /\ ctxDone = FALSE
    /\ selected = <<>>
    /\ ui = InitUi
    /\ result = NoResult
    /\ obs = [analyzed |-> {}, cacheGet |-> {}, renamed |-> {}]

\* the goroutine of Run from r.cache.Get up to the os.Stat of Renamer.Rename:
\* a failure of the analyzer or of GenerateName, or a destination that
\* exists, ends the task as failed; otherwise os.Rename is still to come
Run_ToStat(t) ==
    /\ mode = "headless"
    /\ t \in tasks /\ t.pc = "get"
    /\ LET c == CacheGet(cacheStore, fs, t.path)
       IN \E o \in (IF c.ok THEN {[err |-> FALSE, info |-> c.info[1]]}
                    ELSE AnalyzerOutcomes(fs, t.path)) :
             LET g == GenerateName(template, t.path, o.info)
             IN /\ cacheStore' = IF c.ok \/ o.err THEN c.cache
                                 ELSE CacheSet(c.cache, fs, t.path, o.info).cache
                /\ obs' = [obs EXCEPT !.cacheGet = @ \cup {t.path},
                                      !.analyzed = IF c.ok THEN @
                                                   ELSE @ \cup {t.path}]
                /\ IF o.err \/ g.err
                      \/ DestinationExists(fs, Join(Dir(t.path), g.name))
                   THEN /\ result' = [result EXCEPT !.Failed = @ + 1]
                        /\ tasks' = tasks \ {t}
                        /\ passes' = ReleaseAndDone(passes, t.pass)
                   ELSE /\ tasks' = (tasks \ {t}) \cup
                                       {[pass |-> t.pass, idx |-> t.idx,
                                         pc |-> "rename", path |-> t.path,
                                         newName |-> g.name]}
                        /\ UNCHANGED <<result, passes>>
    /\ UNCHANGED <<mode, maxWorkers, dryRun, fs, files, template, pattern,
                   disp, ctxDone, selected, ui>>

\* the os.Rename of Renamer.Rename and the counting of its outcome: a
\* destination that has come to exist since the os.Stat is replaced
Run_OsRename(t, ioErr) ==
    /\ mode = "headless"
    /\ t \in tasks /\ t.pc = "rename"
    /\ LET newPath == Join(Dir(t.path), t.newName)
       IN IF ioErr \/ ~Exists(fs, t.path)
          THEN /\ result' = [result EXCEPT !.Failed = @ + 1]
               /\ UNCHANGED <<fs, obs>>
          ELSE /\ fs' = [n \in (DOMAIN fs \ {t.path}) \cup {newPath} |->
                            IF n = newPath THEN fs[t.path] ELSE fs[n]]
               /\ result' = [result EXCEPT !.Renamed = @ + 1]
               /\ obs' = [obs EXCEPT !.renamed = @ \cup {t.path}]
    /\ tasks' = tasks \ {t}
    /\ passes' = ReleaseAndDone(passes, t.pass)
    /\ UNCHANGED <<mode, maxWorkers, dryRun, files, template, pattern,
                   cacheStore, disp, ctxDone, selected, ui>>

NextRace ==
    \/ Run_Start
    \/ \E t \in tasks : Run_CheckCtx(t)
    \/ \E t \in tasks : Run_Acquire(t)
    \/ \E t \in tasks : Run_ToStat(t)
    \/ \E t \in tasks, ioErr \in BOOLEAN : Run_OsRename(t, ioErr)
    \/ Run_Return
    \/ Signal_Cancel

SpecRace == InitRace /\ [][NextRace]_vars

----------------------------------------------------------------------------
(* Properties *)

PassIds == 1..Len(passes)

ItemIds == 1..Len(files)

\* tasks of pass p, gated or not
TasksOf(p) == {t \in tasks : t.pass = p}

\* C1: with maxWorkers = N >= 1, at every moment of a pass at most N of its
\* tasks are inside the gated work (cache lookup and analyzer call), whatever
\* the size of the batch
C1_ConcurrencyBound ==
    maxWorkers >= 1 =>
        \A p \in PassIds : Cardinality(Gated(p)) <= maxWorkers

\* a batch larger than N whose N slots are all taken while a task waits
C1_Witness ==
    /\ maxWorkers >= 1
    /\ \E p \in PassIds :
          /\ Cardinality(TasksOf(p)) > maxWorkers
          /\ Cardinality(Gated(p)) = maxWorkers
          /\ \E t \in TasksOf(p) : t.pc = "acquire"

\* C2: a pass returns only after every task it dispatched has completed:
\* unless the run was cancelled, no task of a returned pass is running or
\* waiting for a slot and no item is Analyzing without a running task
C2_ReturnsAfterAllTasks ==
    ~ctxDone =>
        /\ \A t \in tasks : ~passes[t.pass].returned
        /\ \A i \in ItemIds :
              files[i].Status = StatusAnalyzing => \E t \in tasks : t.idx = i
        /\ (mode = "tui" /\ PassIds # {} /\ passes[1].returned) =>
              \A i \in ItemIds :
                  files[i].Status \notin {StatusPending, StatusAnalyzing}

\* a pass over two items has returned, uncancelled, with both items settled
C2_Witness ==
    /\ ~ctxDone
    /\ PassIds # {} /\ passes[1].returned
    /\ Len(files) >= 2
    /\ \A i \in ItemIds :
          files[i].Status \in {StatusReady, StatusCached, StatusError}

\* pass p cannot go on: something waits for a slot, no slot is free and no
\* task holds one that it could give back
Blocked(p) ==
    /\ ~CanAcquire(p)
    /\ Gated(p) = {}
    /\ \/ \E t \in TasksOf(p) : t.pc = "acquire"
       \/ mode = "tui" /\ disp.pc = "acquire"

\* C3: a maxWorkers <= 0 is treated as 1: the pass never blocks forever and
\* never admits more than one task at a time
C3_NonPositiveIsOne ==
    maxWorkers <= 0 =>
        \A p \in PassIds : ~Blocked(p) /\ Cardinality(Gated(p)) <= 1

\* item i of the batch is handed to Renamer.Rename by this step
RenameAttempt(i) ==
    /\ mode \in {"gui", "tui"}
    /\ i \in ItemIds
    /\ files[i].Status \in {StatusReady, StatusCached}
    /\ files[i].NewName # files[i].OriginalName
    /\ obs'.renamed # obs.renamed
    /\ files[i].OriginalPath \in obs'.renamed

\* the headless task t ends in this step after naming its file newName
HeadlessAttempt(t, newName) ==
    /\ mode = "headless" /\ ~dryRun
    /\ t \in tasks /\ t.pc \in {"get", "call"}
    /\ \A u \in tasks' : u.idx # t.idx
    /\ t.path \in obs'.renamed
    /\ newName = GenerateName(template, t.path, InfoC).name

\* the file named n is there when the batch reaches item i: it is in the
\* directory before the step and no item of the batch moves it away
ExistsAtAttempt(i, n) ==
    /\ Exists(fs, n)
    /\ \A j \in ItemIds : RenameAttempt(j) => files[j].OriginalPath # n

\* file n is in the directory before and after the step with the same content
Untouched(n) == Exists(fs, n) /\ Exists(fs', n) /\ fs'[n] = fs[n]

\* C4: a rename whose computed name already exists in the directory fails with
\* the collision error and changes nothing: the source is still there under
\* its original name and the existing file keeps its content
C4_CollisionSafety ==
    [][/\ \A i \in ItemIds :
             (RenameAttempt(i) /\ ExistsAtAttempt(i, files[i].NewName)) =>
                 /\ files'[i].Status = StatusError
                 /\ files'[i].Error = "destination file already exists"
                 /\ Untouched(files[i].OriginalPath)
                 /\ Untouched(files[i].NewName)
       /\ \A t \in tasks : \A n \in DOMAIN fs :
             HeadlessAttempt(t, n) =>
                 /\ result'.Failed = result.Failed + 1
                 /\ result'.Renamed = result.Renamed
                 /\ Untouched(t.path)
                 /\ Untouched(n)]_vars

\* an item failed with the collision error; source and existing file are there
C4_Witness ==
    \E i \in ItemIds :
        /\ files[i].Status = StatusError
        /\ files[i].Error = "destination file already exists"
        /\ Exists(fs, files[i].OriginalPath)
        /\ Exists(fs, files[i].NewName)

RenameErrors == {"destination file already exists", "failed to rename file"}

\* the status changes of item i in this step, for the items that stay
StatusStep(i, from, to) ==
    /\ i \in ItemIds /\ i <= Len(files')
    /\ files[i].Status = from /\ files'[i].Status = to

\* the transitions of the item life cycle as specified
SpecifiedStep(i) ==
    \/ StatusStep(i, StatusPending, StatusAnalyzing)
    \/ StatusStep(i, StatusAnalyzing, StatusCached)
    \/ StatusStep(i, StatusAnalyzing, StatusReady)
    \/ StatusStep(i, StatusAnalyzing, StatusError)
    \/ \E from \in {StatusReady, StatusCached} :
          \/ StatusStep(i, from, StatusRenamed)
          \/ StatusStep(i, from, StatusSkipped)
          \/ /\ StatusStep(i, from, StatusError)
             /\ files[i].OriginalPath \in obs'.renamed
             /\ files'[i].Error \in RenameErrors

TerminalStatuses == {StatusRenamed, StatusError, StatusSkipped}

\* C7: an item is created Pending or Skipped, and once it is Renamed, Error or
\* Skipped no analysis pass, rename batch, template update or selection change
\* gives it another status
C7_InitialAndTerminal ==
    [][\A i \in 1..Len(files') :
          IF i \in ItemIds
          THEN files[i].Status \in TerminalStatuses =>
                  files'[i].Status = files[i].Status
          ELSE files'[i].Status \in {StatusPending, StatusSkipped}]_vars

\* a second pass and a template update have run while an item of the first
\* pass stays in Error and a pre-renamed one in Skipped
C7_Witness ==
    /\ Len(passes) = 2
    /\ pattern # <<TokSvc>>
    /\ \E i, j \in ItemIds :
          /\ files[i].Status = StatusError
          /\ files[j].Status \in {StatusReady, StatusCached}

\* the paths that went to the cache, to the analyzer or to Renamer.Rename
Processed == obs.cacheGet \cup obs.analyzed \cup obs.renamed

\* C8: what discovery classified as already renamed is never dispatched, never
\* reaches the cache or the analyzer and is never renamed, whatever selection
\* changes, passes and rename batches follow
C8_PreRenamedUntouched ==
    /\ \A i \in ItemIds :
          files[i].AlreadyRenamed =>
              /\ files[i].Status = StatusSkipped
              /\ files[i].OriginalPath \notin Processed
              /\ \A t \in tasks : t.idx # i
    /\ \A n \in Processed : ~isAlreadyRenamed(n)
    /\ mode = "headless" => \A t \in tasks : ~isAlreadyRenamed(t.path)

\* a pre-renamed item was selected by hand and a rename batch has run
C8_Witness ==
    \E i \in ItemIds :
        /\ mode = "gui"
        /\ files[i].AlreadyRenamed /\ files[i].Selected
        /\ result.Total > 0

\* name with its last four characters in lower case
LowerExt(name) ==
    IF Len(name) < 4 THEN name
    ELSE SubSeq(name, 1, Len(name) - 4)
             \o ToLower(SubSeq(name, Len(name) - 3, Len(name)))

\* eight digits, "-", a middle, "-", a tail and the extension in any case
RenamedShape(name) == alreadyRenamedPattern(LowerExt(name))

\* C9: discovery classifies by the name alone: a name of the renamed shape,
\* its extension in any case, is Skipped, pre-renamed and never processed;
\* every other name is not pre-renamed
C9_ClassifiedByShape ==
    /\ \A i \in ItemIds :
          /\ files[i].AlreadyRenamed = RenamedShape(files[i].OriginalName)
          /\ RenamedShape(files[i].OriginalName) =>
                files[i].Status = StatusSkipped
    /\ mode = "headless" => \A t \in tasks : ~RenamedShape(t.path)

\* discovery over directory f leaves the file n out of all processing
SkippedByDiscovery(f, n) ==
    /\ \E k \in DOMAIN ScanDirectory(f) :
          /\ ScanDirectory(f)[k].OriginalPath = n
          /\ ScanDirectory(f)[k].Status = StatusSkipped
          /\ ScanDirectory(f)[k].AlreadyRenamed
    /\ n \notin SeqRange(Run_ToProcess(GlobUnique(f)))
    /\ App_NewItem(0, n).Status = StatusSkipped

\* C10: every file that a run has renamed carries a name that a subsequent
\* discovery classifies as Skipped and already renamed, so that it is not
\* analysed or renamed again
C10_RenamedIsSkippedNext ==
    [][\A n \in DOMAIN fs' \ DOMAIN fs : SkippedByDiscovery(fs', n)]_vars

\* C11: every move of the renamer puts the file into the directory it came
\* from, whatever the template fragment and the analyzer's result
C11_SameDirectory ==
    [][\A old \in DOMAIN fs \ DOMAIN fs' : \A new \in DOMAIN fs' \ DOMAIN fs :
          Dir(new) = Dir(old)]_vars

\* after the batch nothing is left under the source path of item i, unless a
\* later item of the same batch was moved to that path
SourceGone(i) ==
    \/ ~Exists(fs', files[i].OriginalPath)
    \/ \E j \in ItemIds \ {i} :
          RenameAttempt(j) /\ files[j].NewName = files[i].OriginalPath

\* C12 as stated: a rename of a Ready or Cached item whose computed name
\* differs from the original name and is not taken always succeeds
C12_RenameSucceeds ==
    [][\A i \in ItemIds :
          (RenameAttempt(i) /\ ~Exists(fs, files[i].NewName)) =>
              /\ files'[i].Status = StatusRenamed
              /\ Exists(fs', files[i].NewName)
              /\ SourceGone(i)]_vars

\* C12: such a rename either moves the file (the item is Renamed, the file is
\* found under the computed name with the source's content, nothing is left
\* under the source path) or is refused by the file system (the item is Error
\* with the rename failure as reason and the directory is as before)
C12_RenameSucceedsOrIoError ==
    [][\A i \in ItemIds :
          (RenameAttempt(i) /\ ~Exists(fs, files[i].NewName)) =>
              \/ /\ files'[i].Status = StatusRenamed
                 /\ Exists(fs', files[i].NewName)
                 /\ fs'[files[i].NewName] = fs[files[i].OriginalPath]
                 /\ SourceGone(i)
              \/ /\ files'[i].Status = StatusError
                 /\ files'[i].Error = "failed to rename file"
                 /\ Untouched(files[i].OriginalPath)
                 /\ ~Exists(fs', files[i].NewName)]_vars

\* an item is Renamed, its file is under the computed name and no longer
\* under the source path
C12_Witness ==
    \E i \in ItemIds :
        /\ files[i].Status = StatusRenamed
        /\ files[i].NewName # files[i].OriginalName
        /\ Exists(fs, files[i].NewName)
        /\ ~Exists(fs, files[i].OriginalPath)

\* the rename step reaches item i, which is Ready or Cached and whose computed
\* name is its original name
NoOpAttempt(i) ==
    /\ mode \in {"gui", "tui"}
    /\ i \in ItemIds
    /\ files[i].Status \in {StatusReady, StatusCached}
    /\ files[i].NewName = files[i].OriginalName
    /\ Len(files') = Len(files)
    /\ files'[i].Status \notin {StatusReady, StatusCached}

\* C13: a rename step on an item whose computed name equals its original name
\* makes no call to the file system and records the item as Skipped; the
\* headless run counts such a file neither as renamed nor as failed
C13_NoOpIsSkipped ==
    [][/\ \A i \in ItemIds :
             NoOpAttempt(i) =>
                 /\ files'[i].Status = StatusSkipped
                 /\ files[i].OriginalPath \notin obs'.renamed
       /\ \A t \in tasks :
             HeadlessAttempt(t, Base(t.path)) =>
                 /\ result'.Failed = result.Failed
                 /\ result'.Renamed = result.Renamed]_vars

\* a template update ends in this step with an error
RejectedUpdate ==
    /\ mode \in {"gui", "tui"}
    /\ ui'.templateError
    /\ ~ui.templateError \/ template' # template

\* C14: a template update that returns an error leaves the active template,
\* which every later generate uses, and the computed names of all items as
\* they were
C14_RejectedKeepsTemplate ==
    [][RejectedUpdate =>
          /\ template' = template
          /\ Len(files') = Len(files)
          /\ \A i \in ItemIds : files'[i].NewName = files[i].NewName]_vars

\* a template update ends in this step without an error
AcceptedUpdate ==
    /\ mode \in {"gui", "tui"}
    /\ template' # template
    /\ ~ui'.templateError

\* the date and service extracted for item it
ExtractedInfo(it) ==
    IF mode = "gui" THEN [Date |-> it.Date, Service |-> it.Service]
    ELSE it.Info[1]

\* C15: after a template update that succeeds, every Ready or Cached item
\* carries the name GenerateName returns for it under the new template, and
\* the items in other states are as before
C15_RegeneratedUnderNewTemplate ==
    [][AcceptedUpdate =>
          /\ Len(files') = Len(files)
          /\ \A i \in ItemIds :
                IF files'[i].Status \in {StatusReady, StatusCached}
                THEN LET g == GenerateName(template', files'[i].OriginalPath,
                                           ExtractedInfo(files'[i]))
                     IN ~g.err /\ files'[i].NewName = g.name
                ELSE files[i].Status \in {StatusReady, StatusCached}
                     \/ files'[i] = files[i]]_vars

\* the files whose bytes are those of the file at path
SameContent(path) == {q \in DOMAIN fs : Exists(fs, path) /\ fs[q] = fs[path]}

\* C16: the cache is addressed by content. Right after a Set through one
\* path has stored a result, a Get through any path with the same bytes
\* finds that result; and at any time Get answers alike through all paths
\* with the same bytes
C16_ContentAddressed ==
    mode = "cache" =>
        /\ \A p1 \in DOMAIN fs : \A p2 \in SameContent(p1) :
              LET c1 == CacheGet(cacheStore, fs, p1)
                  c2 == CacheGet(cacheStore, fs, p2)
              IN c1.ok = c2.ok /\ c1.info = c2.info
        /\ (ui.op = "set" /\ ui.setPath # <<>>) =>
              \A p2 \in SameContent(ui.setPath) :
                 LET c == CacheGet(cacheStore, fs, p2)
                 IN c.ok /\ c.info = ui.setInfo
        /\ (ui.op = "get" /\ ui.setPath # <<>>
               /\ ui.path \in SameContent(ui.setPath)) =>
              ui.found /\ ui.info = ui.setInfo

\* a Set through one path was followed by a Get through the other path, which
\* found the result that was set
C16_Witness ==
    /\ mode = "cache"
    /\ ui.op = "get" /\ ui.setPath # <<>> /\ ui.path # ui.setPath
    /\ ui.found /\ ui.info = ui.setInfo

\* C17: a Get for a file whose present bytes were never handed to Set, or
\* have no entry in the cache directory, reports not found and no result; so
\* does the Get that follows a change of the bytes of a cached file
C17_ChangedOrUnknownContentMisses ==
    (/\ mode = "cache"
     /\ ui.op = "get"
     /\ Exists(fs, ui.path)
     /\ \/ fs[ui.path] \notin obs.analyzed
        \/ hashFile(fs, ui.path).hash \notin DOMAIN cacheStore.entries) =>
        ~ui.found /\ ui.info = <<>>

\* the result of a content is cached and can be found; a file that had this
\* content was edited, and the Get on its path reported not found
C17_Witness ==
    /\ mode = "cache"
    /\ ui.op = "get" /\ ~ui.found
    /\ Exists(fs, ui.path) /\ fs[ui.path] = "bytesE"
    /\ InitContent(ui.path) \in obs.analyzed
    /\ \E q \in DOMAIN fs : fs[q] = InitContent(ui.path)
                            /\ CacheGet(cacheStore, fs, q).ok

\* the entry the enabled cache holds, as a file that parses, for the content
\* of the file at path, if any
EntryOf(path) ==
    LET h == hashFile(fs, path)
    IN IF cacheStore.enabled /\ ~h.err /\ h.hash \in DOMAIN cacheStore.entries
          /\ cacheStore.entries[h.hash].Valid
       THEN <<cacheStore.entries[h.hash]>>
       ELSE <<>>

\* C18: a Get on an entry older than a positive TTL reports not found and
\* removes the entry file; a Get on any other entry, and on an entry of any
\* age when the TTL is 0, returns the entry's result and leaves the cache
\* directory as it is
C18_ExpiredExactlyWhenOlderThanTtl ==
    [][(mode = "cache" /\ ui'.op = "get" /\ EntryOf(ui'.path) # <<>>) =>
          LET e == EntryOf(ui'.path)[1]
          IN IF cacheStore.ttl > 0 /\ e.Age > cacheStore.ttl
             THEN /\ ~ui'.found
                  /\ ui'.info = <<>>
                  /\ cacheStore'.entries = RemoveEntry(cacheStore.entries, e.Hash)
             ELSE /\ ui'.found
                  /\ ui'.info = <<e.Result>>
                  /\ cacheStore' = cacheStore]_vars

\* a Get met an entry older than the TTL, reported not found and the entry is
\* no longer in the cache directory
C18_Witness ==
    /\ mode = "cache"
    /\ ui.op = "get" /\ ui.had /\ ~ui.found
    /\ cacheStore.enabled /\ cacheStore.ttl > 0
    /\ Exists(fs, ui.path)
    /\ hashFile(fs, ui.path).hash \notin DOMAIN cacheStore.entries

\* the file at path cannot be read, or the cache directory has no entry file
\* for its content, or that entry file does not parse
SoftFailure(path) ==
    LET h == hashFile(fs, path)
    IN \/ h.err
       \/ h.hash \notin DOMAIN cacheStore.entries
       \/ ~cacheStore.entries[h.hash].Valid

\* C19: a Get that meets an unreadable file, a missing entry or an entry that
\* does not parse reports not found, returns no result and leaves the cache
\* directory as it is; in the GUI and in the headless run the task then calls
\* the analyzer for the file
C19_SoftFailureIsMiss ==
    [][/\ (mode = "cache" /\ ui'.op = "get" /\ SoftFailure(ui'.path)) =>
             /\ ~ui'.found /\ ui'.info = <<>> /\ ~ui'.err
             /\ cacheStore' = cacheStore
       /\ \A t \in tasks \ tasks' :
             (/\ \/ mode = "gui" /\ t.pc = "read"
                 \/ mode = "headless" /\ t.pc = "get"
              /\ SoftFailure(IF mode = "gui" THEN files[t.idx].OriginalPath
                             ELSE t.path)) =>
                 /\ \E u \in tasks' : u.idx = t.idx /\ u.pc = "call"
                 /\ cacheStore' = cacheStore
                 /\ (IF mode = "gui" THEN files[t.idx].OriginalPath ELSE t.path)
                       \in obs'.analyzed]_vars

\* the cache directory holds an entry file that does not parse for the
\* content of a file of the GUI, and the file was analysed and is Ready
C19_Witness ==
    /\ mode = "gui"
    /\ cacheStore.enabled
    /\ \E i \in ItemIds :
          /\ files[i].Status = StatusReady
          /\ files[i].OriginalPath \in obs.analyzed
          /\ LET h == hashFile(fs, files[i].OriginalPath)
             IN /\ ~h.err /\ h.hash \in DOMAIN cacheStore.entries
                /\ ~cacheStore.entries[h.hash].Valid

\* Cache.Set returns an error for the file at path
SetFails(path) == CacheSet(cacheStore, fs, path, InfoC).err

\* C20: when Cache.Set fails for a file of the GUI, the return of the analyzer
\* either records the analyzer's own failure or goes on to the name generated
\* from the result held in memory, which is then written with status Ready; an
\* item is never in Error for another reason than the analyzer's or the
\* template's
C20_SetFailureDoesNotAbort ==
    [][mode = "gui" =>
          /\ \A t \in tasks \ tasks' :
                (t.pc = "call" /\ SetFails(t.path)) =>
                    \/ /\ files'[t.idx].Status = StatusError
                       /\ files'[t.idx].Error = "analyzer"
                    \/ \E u \in tasks' :
                          /\ u.idx = t.idx /\ u.pc = "wready"
                          /\ u.info = InfoC
                          /\ u.newName = GenerateName(template, t.path, InfoC).name
          /\ \A t \in tasks \ tasks' :
                t.pc = "wready" =>
                    /\ files'[t.idx].Status = StatusReady
                    /\ files'[t.idx].NewName = t.newName
          /\ \A i \in DOMAIN files' :
                files'[i].Status = StatusError =>
                    files'[i].Error \in {"analyzer", "template"}]_vars

\* the cache directory cannot be written and has no entry for the content of
\* an item of the GUI, and the item is Ready under its generated name
C20_Witness ==
    /\ mode = "gui"
    /\ cacheStore.enabled /\ ~cacheStore.writable
    /\ \E i \in ItemIds :
          /\ files[i].Status = StatusReady
          /\ files[i].NewName = NameDoneA
          /\ hashFile(fs, files[i].OriginalPath).hash
                \notin DOMAIN cacheStore.entries

\* the task t is at its cache lookup
AtLookup(t) ==
    \/ mode = "gui" /\ t.pc = "read"
    \/ mode \in {"tui", "headless"} /\ t.pc = "get"

\* the file the task t works on
TaskPath(t) == IF mode = "headless" THEN t.path ELSE files[t.idx].OriginalPath

\* C21: a task whose cache lookup is a hit names the file from the cached
\* result and ends in Cached or Error; it never goes on to the analyzer
C21_HitNeverAnalyzes ==
    [][\A t \in tasks \ tasks' :
          (AtLookup(t) /\ CacheGet(cacheStore, fs, TaskPath(t)).ok) =>
              /\ \A u \in tasks' : u.idx = t.idx => u.pc # "call"
              /\ mode = "gui" =>
                    \/ \E u \in tasks' : u.idx = t.idx /\ u.pc = "wcached"
                    \/ files'[t.idx].Status = StatusError
              /\ mode = "tui" =>
                    files'[t.idx].Status \in {StatusCached, StatusError}]_vars

\* C22: an analyzer call that fails leaves its item in Error with the reason
\* recorded; a pass starts tasks only for items that are Pending; and no
\* analyzer call is started for a file the analyzer was already called for
C22_FailedOnceNeverRetried ==
    [][/\ mode \in {"gui", "tui"} =>
             /\ \A t \in tasks \ tasks' :
                   (t.pc = "call" /\ files'[t.idx].Status = StatusError) =>
                       files'[t.idx].Error # ""
             /\ \A u \in tasks' :
                   (\A t \in tasks : t.idx # u.idx) =>
                       files[u.idx].Status = StatusPending
             /\ \A i \in ItemIds :
                   (files[i].Status = StatusError /\ Len(files') = Len(files)) =>
                       files'[i].Status = StatusError
       /\ \A u \in tasks' \ tasks :
             u.pc = "call" =>
                 (IF mode = "headless" THEN u.path
                  ELSE files[u.idx].OriginalPath) \notin obs.analyzed]_vars

\* an item of the GUI failed in the analyzer, a later pass has run to its end
\* and the item is still in Error
C22_Witness ==
    /\ mode = "gui"
    /\ Len(passes) = 2 /\ passes[2].returned
    /\ \E i \in ItemIds :
          /\ files[i].Status = StatusError /\ files[i].Error = "analyzer"
          /\ \E j \in ItemIds : files[j].Status \in {StatusReady, StatusCached}

\* C23: once the context is cancelled no task arrives at its cache lookup, so
\* a task that had not begun its work makes no lookup, no analyzer call and
\* no rename
C23_CancelledTaskDoesNotBegin ==
    [][ctxDone => \A u \in tasks' \ tasks : ~AtLookup(u)]_vars

InBatch(i) ==
    /\ IF mode = "gui" THEN files[i].Selected ELSE selected[i]
    /\ files[i].Status \in {StatusReady, StatusCached}

\* C25: a rename batch (RenameFiles of the GUI, renameCmd of the TUI) leaves
\* every item that is unselected or not Ready/Cached as it was: status,
\* computed name, failure reason and all other fields, and its file
C25_BatchTouchesOnlyItsItems ==
    [][(App_RenameFiles \/ Model_RenameCmd) =>
          \A i \in 1..Len(files) :
             ~InBatch(i) =>
                /\ files'[i] = files[i]
                /\ Exists(fs, files[i].OriginalPath) =>
                      /\ Exists(fs', files[i].OriginalPath)
                      /\ fs'[files[i].OriginalPath] = fs[files[i].OriginalPath]]_vars

\* a GUI batch has renamed a selected item while an unselected Ready item and
\* its file are as they were
C25_Witness ==
    /\ mode = "gui"
    /\ result.Renamed >= 1
    /\ \E i, j \in 1..Len(files) :
          /\ files[i].Status = StatusRenamed
          /\ ~files[j].Selected /\ files[j].Status \in {StatusReady, StatusCached}
          /\ Exists(fs, files[j].OriginalPath)
          /\ ~Exists(fs, files[i].OriginalPath)

\* the items that take part in a rename batch started in the current state
BatchItems == {i \in 1..Len(files) : InBatch(i)}

\* the items of the batch that are in status s after the step
BatchEnded(s) == {i \in BatchItems : files'[i].Status = s}

\* RenameFiles of the GUI: every batch item ends Renamed, Error or Skipped,
\* Rename is called for each item that is not a no-op, and the counts add up
C26_GuiBatch ==
    (files' # files /\ App_RenameFiles) =>
       /\ \A i \in BatchItems :
             files'[i].Status \in {StatusRenamed, StatusError, StatusSkipped}
       /\ obs'.renamed = obs.renamed \cup
             {files[i].OriginalPath : i \in BatchItems \ BatchEnded(StatusSkipped)}
       /\ result'.Renamed = Cardinality(BatchEnded(StatusRenamed))
       /\ result'.Failed = Cardinality(BatchEnded(StatusError))
       /\ result'.Skipped = Cardinality(BatchEnded(StatusSkipped))
       /\ result'.Total = Cardinality(BatchItems)
       /\ result'.Total = result'.Renamed + result'.Failed + result'.Skipped

\* renameCmd of the TUI: every batch item ends Renamed or Error and the two
\* counts of renameCompleteMsg add up to the size of the batch
C26_TuiBatch ==
    (ui.renaming /\ Model_RenameCmd) =>
       /\ \A i \in BatchItems : files'[i].Status \in {StatusRenamed, StatusError}
       /\ obs'.renamed = obs.renamed \cup {files[i].OriginalPath : i \in BatchItems}
       /\ result'.Renamed = Cardinality(BatchEnded(StatusRenamed))
       /\ result'.Failed = Cardinality(BatchEnded(StatusError))
       /\ result'.Renamed + result'.Failed = Cardinality(BatchItems)

\* the headless run: Run starts one task per file that is not pre-renamed and
\* counts the pre-renamed ones as skipped; while the run is not cancelled
\* every task that ends adds one to renamed or failed; Run returns with no
\* task left
C26_HeadlessRun ==
    mode = "headless" =>
       /\ (ui.pc = "start" /\ ui'.pc # "start") =>
             LET unique == SeqRange(GlobUnique(fs))
             IN /\ result'.Skipped =
                      Cardinality({n \in unique : isAlreadyRenamed(n)})
                /\ Cardinality(tasks') =
                      Cardinality({n \in unique : ~isAlreadyRenamed(n)})
                /\ result'.Renamed + result'.Failed = 0
       /\ (ui.pc = "running" /\ ~ctxDone') =>
             /\ result'.Renamed + result'.Failed + Cardinality(tasks')
                   = result.Renamed + result.Failed + Cardinality(tasks)
             /\ result'.Skipped = result.Skipped
       /\ (ui'.pc = "returned" /\ ~ctxDone') => tasks' = {}

\* C26: a rename batch attempts each selected Ready/Cached item once, each
\* ends Renamed, Error or Skipped, and total = renamed + errored + skipped =
\* the number of such items at the start; a headless run that is not cancelled
\* returns renamed + failed = the number of files not pre-renamed and
\* skipped = the number of pre-renamed files
C26_BatchCountsAddUp ==
    [][C26_GuiBatch /\ C26_TuiBatch /\ C26_HeadlessRun]_vars

\* a GUI batch of two items whose first Rename failed and whose second
\* succeeded, counted as one error and one renamed of two
C26_Witness ==
    /\ mode = "gui"
    /\ Len(files) = 2
    /\ files[1].Status = StatusError /\ files[1].Error = "failed to rename file"
    /\ files[2].Status = StatusRenamed
    /\ result = [Renamed |-> 1, Failed |-> 1, Skipped |-> 0, Total |-> 2]

\* C27: after a setup that failed, a request to analyse processes no item:
\* every item is still Pending, neither the cache nor the analyzer has been
\* called, and the process has not crashed
C27_FailedSetupProcessesNothing ==
    (mode = "gui" /\ "setup" \in DOMAIN ui) =>
       /\ \A i \in 1..Len(files) : files[i].Status = StatusPending
       /\ obs.cacheGet = {} /\ obs.analyzed = {}
       /\ ~ui.crashed

RECURSIVE C28_Apply(_, _, _, _)
\* the template tree written out with the three values in place of its fields
C28_Apply(tree, date, service, name) ==
    IF tree = <<>> THEN <<>>
    ELSE (CASE Head(tree).kind = "text" -> <<Head(tree).arg>>
            [] Head(tree).arg = "Date" -> date
            [] Head(tree).arg = "Service" -> service
            [] OTHER -> name)
         \o C28_Apply(Tail(tree), date, service, name)

\* C28: the generated name is the active template applied to Date, the
\* sanitized Service and the original name without its extension, followed by
\* the original extension as it is written, empty for a name without one; it
\* depends on nothing but the original name, the extracted values and the
\* template, and generation fails only for a field the template data lacks
C28_GenerateIsTemplateThenExt ==
    (mode = "renamer" /\ ui.pc # "start") =>
       LET originalName == Base(ui.src)
           ext == Ext(originalName)
       IN /\ ui.pc = "failed" <=>
                \E k \in 1..Len(template) :
                   /\ template[k].kind = "field"
                   /\ template[k].arg \notin TemplateDataFields
          /\ ui.pc # "failed" =>
                /\ ui.name =
                      C28_Apply(template, ui.info.Date,
                                sanitizeFilename(ui.info.Service),
                                SubSeq(originalName, 1,
                                       Len(originalName) - Len(ext)))
                      \o ext
                /\ (\A k \in 1..Len(originalName) : originalName[k] # ".")
                      => ext = <<>>

\* b.PDF was named for the service "A/* B": the name carries A-B and ends in
\* .PDF
C28_Witness ==
    /\ mode = "renamer" /\ ui.pc = "named"
    /\ ui.src = PathB
    /\ ui.info.Service = <<"A", "/", "*", " ", "B">>
    /\ ui.info.Date = DateStr
    /\ ui.name = DateStr \o <<"-", "A", "-", "B", "-", "b">> \o PDFExt

\* the characters C29 speaks of
C29_Whitespace == {" ", "\t", "\n", "\r"}

C29_ToHyphen == {"/", "\\", ":"} \cup C29_Whitespace

C29_Removed == {"\"", "*", "?", "<", ">", "|"}

RECURSIVE C29_Expected(_, _, _)
\* s with every run of separators, colons, whitespace and hyphens between two
\* kept characters written as one hyphen, the removed characters and the runs
\* at both ends dropped; hy: a hyphen is due, started: a character was kept
C29_Expected(s, hy, started) ==
    IF s = <<>> THEN <<>>
    ELSE IF Head(s) \in C29_ToHyphen \cup {"-"}
    THEN C29_Expected(Tail(s), TRUE, started)
    ELSE IF Head(s) \in C29_Removed
    THEN C29_Expected(Tail(s), hy, started)
    ELSE (IF hy /\ started THEN <<"-">> ELSE <<>>) \o <<Head(s)>>
         \o C29_Expected(Tail(s), FALSE, TRUE)

\* C29: the sanitized service name holds no path separator, colon, quote,
\* wildcard, angle bracket, pipe or whitespace character and no two adjacent
\* hyphens, does not start or end with a hyphen, and is the input with its
\* separators, colons and whitespace runs turned into single hyphens and the
\* removed characters dropped without a trace
C29_SanitizedIsClean ==
    (mode = "renamer" /\ ui.pc = "named") =>
       LET out == sanitizeFilename(ui.info.Service)
       IN /\ \A k \in 1..Len(out) : out[k] \notin C29_ToHyphen \cup C29_Removed
          /\ ~ContainsDouble(out)
          /\ out # <<>> => out[1] # "-" /\ out[Len(out)] # "-"
          /\ out = C29_Expected(ui.info.Service, FALSE, FALSE)

\* no entry file was written in the step: none is new, none has a new result
\* or a later AnalyzedAt, none that did not parse parses now
C30_NoEntryWritten ==
    \A h \in DOMAIN cacheStore'.entries :
       /\ h \in DOMAIN cacheStore.entries
       /\ cacheStore'.entries[h].Result = cacheStore.entries[h].Result
       /\ cacheStore'.entries[h].Age >= cacheStore.entries[h].Age
       /\ cacheStore'.entries[h].Valid => cacheStore.entries[h].Valid

\* C30: with the cache disabled a Set returns no error and writes no entry, a
\* Get reports found = false, and every task that looks a file up goes on to
\* the analyzer, whatever the cache directory holds
C30_DisabledCacheIsInert ==
    [][~cacheStore.enabled =>
          /\ C30_NoEntryWritten
          /\ (mode = "cache" /\ ui'.op = "set") => ~ui'.err
          /\ (mode = "cache" /\ ui'.op = "get") => ~ui'.found
          /\ \A t \in tasks \ tasks' :
                AtLookup(t) =>
                   \E u \in tasks' : u.idx = t.idx /\ u.pc = "call"
          /\ mode = "gui" =>
                \A i \in 1..Len(files') : files'[i].Status # StatusCached]_vars

\* the GUI, with the cache disabled and an entry of an earlier run for the
\* content of a.pdf in the directory, has sent a.pdf to the analyzer and
\* named it from the answer
C30_Witness ==
    /\ mode = "gui" /\ ~cacheStore.enabled
    /\ hashFile(fs, NameA).hash \in DOMAIN cacheStore.entries
    /\ cacheStore.entries[hashFile(fs, NameA).hash].Valid
    /\ NameA \in obs.analyzed
    /\ \E i \in 1..Len(files) :
          files[i].OriginalPath = NameA /\ files[i].Status = StatusReady

\* the number of entry files in the cache directory
C31_Entries == Cardinality(DOMAIN cacheStore.entries)

\* the step is a Set for content that already has an entry file
C31_SetOverwrites ==
    /\ mode = "cache" /\ ui'.op = "set"
    /\ ~hashFile(fs, ui'.path).err
    /\ hashFile(fs, ui'.path).hash \in DOMAIN cacheStore.entries

\* C31: a Count that returns no error returns the number of content hashes
\* that have an entry file; a Set for content that has an entry leaves that
\* number as it is; after a Clear that returns no error no entry is left, so
\* the count is 0, and a Get made while no entry is there finds nothing
C31_CountIsEntriesUnlessIoError ==
    [][mode = "cache" =>
          /\ (ui'.op = "count" /\ ~ui'.err) => result'.Total = C31_Entries'
          /\ C31_SetOverwrites => C31_Entries' = C31_Entries
          /\ (ui'.op = "clear" /\ ~ui'.err) => C31_Entries' = 0
          /\ (ui'.op = "get" /\ C31_Entries = 0) => ~ui'.found]_vars

\* C31 as stated: the same of every Count and every Clear, whatever they
\* return
C31_CountIsEntries ==
    [][mode = "cache" =>
          /\ ui'.op = "count" => result'.Total = C31_Entries'
          /\ C31_SetOverwrites => C31_Entries' = C31_Entries
          /\ ui'.op = "clear" => C31_Entries' = 0
          /\ (ui'.op = "get" /\ C31_Entries = 0) => ~ui'.found]_vars

\* a Clear has emptied a directory for which an earlier Count had returned 2
C31_Witness ==
    /\ mode = "cache"
    /\ ui.op = "clear" /\ ~ui.err
    /\ result.Total = 2
    /\ C31_Entries = 0

\* the step is an Add of a pattern that Get returned before it
C32_ReAdd ==
    \E i \in 1..Len(History_Get(ui)) : History_Get(ui)[i] = ui'.last

C33_TaskWritesOnlyItsItem ==
    [][/\ ~ui'.crashed
       /\ \A t \in tasks :
             (t.pc \in {"call", "wcached", "wready"} /\ t \notin tasks'
                /\ files' # files)
             => /\ t.idx <= Len(files)
                /\ files[t.idx].OriginalPath = t.path
                /\ files[t.idx].Status = StatusAnalyzing]_vars

\* C34: in a headless run, of the items of one directory whose computed names
\* are equal at most one has its rename succeed, and every file of the
\* directory keeps its content under some name
C34_EqualNamesRenameOnce ==
    (mode = "headless" /\ template = TemplateParse(<<TokDate, "-", TokSvc>>).tree)
    => /\ Cardinality(obs.renamed) <= 1
       /\ result.Renamed <= 1
       /\ \A n \in {NameA, NameC} : \E m \in DOMAIN fs : fs[m] = InitContent(n)

\* C35: the bound on concurrent analyses holds for the whole GUI process:
\* over all passes of AnalyzeFiles together, the analyzer calls in flight
\* never number more than the configured pool size
C35_BoundAcrossPasses ==
    mode = "gui"
    => Cardinality({t \in tasks : t.pc = "call"}) <= App_PoolSize(maxWorkers)

\* C36: under every interleaving of AnalyzeFiles passes with AddFiles each
\* item is dispatched to at most one analysis task and written by it once: a
\* task is started only for a pending item that no task works on, the item
\* leaves Pending for good, and a task that ends leaves the Analyzing item
\* it was started for with its result
C36_DispatchedOnce ==
    [][mode = "gui" =>
         /\ \A t \in tasks' \ tasks :
               t.pc = "acquire"
               => /\ files[t.idx].Status = StatusPending
                  /\ files'[t.idx].Status = StatusAnalyzing
                  /\ \A u \in tasks : u.idx # t.idx
         /\ \A t, u \in tasks' : t.idx = u.idx => t.pass = u.pass
         /\ \A i \in 1..Len(files) :
               files[i].Status # StatusPending
               => files'[i].Status # StatusPending
         /\ \A t \in tasks :
               (\A u \in tasks' : u.idx # t.idx)
               => /\ files[t.idx].Status = StatusAnalyzing
                  /\ files'[t.idx].Status \in
                        {StatusReady, StatusCached, StatusError}]_vars

\* two passes are in flight at once, each with a task of its own
C36_Witness ==
    /\ mode = "gui"
    /\ \E t, u \in tasks : t.pass = 1 /\ u.pass = 2 /\ t.idx # u.idx
    /\ \E i \in 1..Len(files) : files[i].Status = StatusAnalyzing

\* C37: when a template update that returned no error and the analysis
\* passes have all finished, every Ready or Cached item of a collection that
\* was never cleared carries the name the template now in force generates
\* for it
C37_NoNameOfReplacedTemplate ==
    (mode = "gui" /\ tasks = {} /\ ~ui.templateError /\ ~ui.cleared)
    => \A i \in 1..Len(files) :
          files[i].Status \in {StatusReady, StatusCached}
          => files[i].NewName =
                GenerateName(template, files[i].OriginalPath,
                             [Date |-> files[i].Date,
                              Service |-> files[i].Service]).name

\* C38: after any AddFiles and ClearFiles calls no path appears twice in the
\* collection and no two items carry the same id, so that
\* ToggleFileSelection with the id of an item flips the selection of that
\* item
C38_PathsAndIdsUnique ==
    [][mode = "gui" =>
         /\ \A i, j \in 1..Len(files') :
               i # j => /\ files'[i].OriginalPath # files'[j].OriginalPath
                        /\ files'[i].ID # files'[j].ID
         /\ \A i \in 1..Len(files) :
               (Len(files') = Len(files)
                  /\ files' = ToggleFileSelection(files, files[i].ID))
               => files'[i].Selected # files[i].Selected]_vars

\* C39: whenever Cache.Get returns found = true the result it returns is a
\* record of date and service, whatever the entry file holds
C39_HitCarriesResult ==
    (mode = "cache" /\ ui.op = "get" /\ ui.found)
    => DOMAIN ui.info[1] = {"Date", "Service"}

\* the number of items of the collection with the path p
C40_Count(p) == Cardinality({i \in 1..Len(files) : files[i].OriginalPath = p})

====
